---- MODULE Spec2Model ----
(***************************************************************************)
(* Model of the response-parsing layer of the ha_cablemodem_stats          *)
(* integration (custom_components/ha_cablemodem_stats/__init__.py).        *)
(*                                                                         *)
(* Text is modelled as a sequence of one-character strings, so that        *)
(* str.split, str.strip, re.match, int() and float() are computed the way  *)
(* Python computes them.  A call that raises is modelled by an outcome     *)
(* record whose exc field names the exception.                             *)
(***************************************************************************)
EXTENDS Integers, Sequences, FiniteSets, TLC

VARIABLES
    coordinator,  \* the ArrisModemDataUpdateCoordinator object's own fields
    history,      \* completed parser calls on the coordinator, oldest first
    fn,           \* single-call specifications: the function under test
    arg,          \* single-call specifications: its argument
    ret           \* single-call specifications: its outcome, once called

vars == <<coordinator, history, fn, arg, ret>>

(***************************************************************************)
(* Bounds of the model.                                                    *)
(***************************************************************************)
MaxTokens == 3     \* whitespace-separated tokens in an uptime text
MaxRecords == 2    \* records in a channel blob of a JSON response
MaxRows == 3       \* rows in a table of an HTML document
MaxCalls == 3      \* parser calls recorded in history
MaxDigits == 6     \* digits in a concatenated run of channel ids
MaxEvents == 6     \* steps of setups and unloads recorded in history

(***************************************************************************)
(* Characters and Python's string primitives.                              *)
(***************************************************************************)
Digit == {"0", "1", "2", "3", "4", "5", "6", "7", "8", "9"}

Whitespace == {" ", "\n"}

DigitVal(c) ==
    CASE c = "0" -> 0 [] c = "1" -> 1 [] c = "2" -> 2 [] c = "3" -> 3
      [] c = "4" -> 4 [] c = "5" -> 5 [] c = "6" -> 6 [] c = "7" -> 7
      [] c = "8" -> 8 [] c = "9" -> 9

IsDigits(s) == Len(s) > 0 /\ \A i \in 1..Len(s) : s[i] \in Digit

RECURSIVE NatOf(_)
NatOf(s) ==
    IF s = <<>> THEN 0
    ELSE 10 * NatOf(SubSeq(s, 1, Len(s) - 1)) + DigitVal(s[Len(s)])

RECURSIVE Pow10(_)
Pow10(n) == IF n = 0 THEN 1 ELSE 10 * Pow10(n - 1)

RECURSIVE LStrip(_)
LStrip(s) ==
    IF s # <<>> /\ s[1] \in Whitespace THEN LStrip(Tail(s)) ELSE s

RECURSIVE RStrip(_)
RStrip(s) ==
    IF s # <<>> /\ s[Len(s)] \in Whitespace
    THEN RStrip(SubSeq(s, 1, Len(s) - 1)) ELSE s

\* str.strip()
Strip(s) == RStrip(LStrip(s))

RECURSIVE SplitWsFrom(_, _, _, _)
SplitWsFrom(s, i, cur, acc) ==
    IF i > Len(s) THEN (IF cur = <<>> THEN acc ELSE Append(acc, cur))
    ELSE IF s[i] \in Whitespace
         THEN SplitWsFrom(s, i + 1, <<>>,
                          IF cur = <<>> THEN acc ELSE Append(acc, cur))
         ELSE SplitWsFrom(s, i + 1, Append(cur, s[i]), acc)

\* str.split() with no separator: runs of whitespace separate, no empty pieces
SplitWs(s) == SplitWsFrom(s, 1, <<>>, <<>>)

StartsAt(s, i, lit) ==
    /\ i + Len(lit) - 1 <= Len(s)
    /\ SubSeq(s, i, i + Len(lit) - 1) = lit

RECURSIVE SplitOnFrom(_, _, _, _, _)
SplitOnFrom(s, sep, i, cur, acc) ==
    IF i > Len(s) THEN Append(acc, cur)
    ELSE IF StartsAt(s, i, sep)
         THEN SplitOnFrom(s, sep, i + Len(sep), <<>>, Append(acc, cur))
         ELSE SplitOnFrom(s, sep, i + 1, Append(cur, s[i]), acc)

\* str.split(sep): every piece between separators, empty pieces kept
SplitOn(s, sep) == SplitOnFrom(s, sep, 1, <<>>, <<>>)

EndsWith(s, c) == s # <<>> /\ s[Len(s)] = c

\* s[:-1]
DropLast(s) == IF s = <<>> THEN <<>> ELSE SubSeq(s, 1, Len(s) - 1)

RECURSIVE DigitRun(_, _)
\* number of consecutive digits of s from index i on (the greedy \d+)
DigitRun(s, i) ==
    IF i <= Len(s) /\ s[i] \in Digit THEN 1 + DigitRun(s, i + 1) ELSE 0

(***************************************************************************)
(* Outcomes of a call: a returned value or a raised exception.             *)
(***************************************************************************)
Ok(v) == [exc |-> "none", value |-> v]

Raise(e) == [exc |-> e]

Returned(o) == o.exc = "none"

\* the rest of a function body after a call: skipped when the call raised,
\* and the exception propagates
Bind(o, Rest(_)) == IF Returned(o) THEN Rest(o.value) ELSE o

Max(a, b) == IF a > b THEN a ELSE b

(***************************************************************************)
(* int(s) on the characters that occur here: optional surrounding          *)
(* whitespace, an optional sign, then one or more digits.                  *)
(***************************************************************************)
Unsigned(t) == IF t # <<>> /\ t[1] \in {"+", "-"} THEN Tail(t) ELSE t

SignedNat(t) ==
    IF t # <<>> /\ t[1] = "-" THEN 0 - NatOf(Tail(t)) ELSE NatOf(Unsigned(t))

IntOk(s) == IsDigits(Unsigned(Strip(s)))

IntVal(s) == SignedNat(Strip(s))

PyInt(s) == IF IntOk(s) THEN Ok(IntVal(s)) ELSE Raise("ValueError")

(***************************************************************************)
(* parse_uptime                                                            *)
(***************************************************************************)
LitDays == <<" ", "d", "a", "y", "s", " ">>
LitH == <<"h", ":">>
LitM == <<"m", ":">>
LitS == <<"s">>
TokDays == <<"d", "a", "y", "s">>

\* \d+ at index i followed by the literal: the index after the literal, 0
\* when there is no match
DigitsThen(text, i, lit) ==
    IF DigitRun(text, i) > 0 /\ StartsAt(text, i + DigitRun(text, i), lit)
    THEN i + DigitRun(text, i) + Len(lit)
    ELSE 0

RECURSIVE MatchEnds(_, _, _, _)
\* the pattern piece by piece, each piece \d+ and a literal, from index i on:
\* the indices after each literal, <<>> when a piece does not match
MatchEnds(text, i, lits, ends) ==
    IF lits = <<>> THEN ends
    ELSE IF DigitsThen(text, i, Head(lits)) = 0 THEN <<>>
    ELSE MatchEnds(text, DigitsThen(text, i, Head(lits)), Tail(lits),
                   Append(ends, DigitsThen(text, i, Head(lits))))

\* the match object of r"(\d+) days (\d+)h:(\d+)m:(\d+)s" from the start of
\* the text, e its piece ends; whole: the match must end at the end of the text
MatchGroups(text, e, whole) ==
    IF e # <<>> /\ (whole => e[4] = Len(text) + 1)
    THEN [found |-> TRUE,
          groups |-> << SubSeq(text, 1, e[1] - Len(LitDays) - 1),
                        SubSeq(text, e[1], e[2] - Len(LitH) - 1),
                        SubSeq(text, e[2], e[3] - Len(LitM) - 1),
                        SubSeq(text, e[3], e[4] - Len(LitS) - 1) >>]
    ELSE [found |-> FALSE, groups |-> <<>>]

\* variant: re.fullmatch, the pattern anchored at the end of the text as well
StrictFullMatch(text) ==
    MatchGroups(text, MatchEnds(text, 1, <<LitDays, LitH, LitM, LitS>>, <<>>), TRUE)

\* re.match(r"(\d+) days (\d+)h:(\d+)m:(\d+)s", text): anchored at the start
\* of the text, not at its end
StrictMatch(text) ==
    MatchGroups(text, MatchEnds(text, 1, <<LitDays, LitH, LitM, LitS>>, <<>>), FALSE)

ZeroUptime == [days |-> 0, hours |-> 0, minutes |-> 0, seconds |-> 0,
               exc |-> "none"]

\* component = int(s), a ValueError ending the loop
SetComponent(acc, component, s) ==
    IF IntOk(s) THEN [acc EXCEPT ![component] = IntVal(s)]
    ELSE [acc EXCEPT !.exc = "ValueError"]

\* one iteration of `for i, part in enumerate(parts)`; i is 1-based here, and
\* parts[i-1] of the code with i = 0 is Python's parts[-1], the last token
LooseStep(parts, i, acc) ==
    IF parts[i] = TokDays
    THEN SetComponent(acc, "days",
                      IF i = 1 THEN parts[Len(parts)] ELSE parts[i - 1])
    ELSE IF \E c \in {"h", "m", "s"} : EndsWith(parts[i], c)
    THEN SetComponent(acc,
                      CASE EndsWith(parts[i], "h") -> "hours"
                        [] EndsWith(parts[i], "m") -> "minutes"
                        [] EndsWith(parts[i], "s") -> "seconds",
                      DropLast(parts[i]))
    ELSE acc

RECURSIVE LooseLoop(_, _, _)
LooseLoop(parts, i, acc) ==
    IF i > Len(parts) \/ acc.exc # "none" THEN acc
    ELSE LooseLoop(parts, i + 1, LooseStep(parts, i, acc))

\* days, hours, minutes, seconds from the match, else from the token loop
MatchedOrLoose(text, m) ==
    IF m.found
    THEN [days |-> NatOf(m.groups[1]), hours |-> NatOf(m.groups[2]),
          minutes |-> NatOf(m.groups[3]), seconds |-> NatOf(m.groups[4]),
          exc |-> "none"]
    ELSE LooseLoop(SplitWs(text), 1, ZeroUptime)

UptimeComponents(text) == MatchedOrLoose(text, StrictMatch(text))

\* return days * 86400 + hours * 3600 + minutes * 60 + seconds
UptimeSeconds(c) ==
    IF c.exc # "none" THEN Raise(c.exc)
    ELSE Ok(c.days * 86400 + c.hours * 3600 + c.minutes * 60 + c.seconds)

parse_uptime(text) == UptimeSeconds(UptimeComponents(text))

(***************************************************************************)
(* float(s) on the characters that occur here: optional surrounding        *)
(* whitespace, an optional sign, digits with an optional fraction.  A      *)
(* float is the exact rational num/den, den a power of ten, in lowest      *)
(* power-of-ten terms, so that equal numbers are equal values.             *)
(***************************************************************************)
RECURSIVE Reduce10(_, _)
Reduce10(n, d) ==
    IF d > 1 /\ n % 10 = 0 THEN Reduce10(n \div 10, d \div 10)
    ELSE [num |-> n, den |-> d]

FloatOfInt(n) == [num |-> n, den |-> 1]

\* b is digits, digits "." digits* or "." digits
Decimal(b) ==
    \/ DigitRun(b, 1) > 0 /\ DigitRun(b, 1) = Len(b)
    \/ /\ DigitRun(b, 1) > 0 /\ b[DigitRun(b, 1) + 1] = "."
       /\ DigitRun(b, 1) + 1 + DigitRun(b, DigitRun(b, 1) + 2) = Len(b)
    \/ /\ DigitRun(b, 1) = 0 /\ b # <<>> /\ b[1] = "."
       /\ DigitRun(b, 2) > 0 /\ 1 + DigitRun(b, 2) = Len(b)

FloatOk(s) == Decimal(Unsigned(Strip(s)))

\* the number of digits after the "." of a decimal, 0 when it has none
FractionLen(b) ==
    IF DigitRun(b, 1) < Len(b) THEN Len(b) - DigitRun(b, 1) - 1 ELSE 0

\* the value of a signed decimal: its digits read as one number, over ten to
\* the number of fraction digits
SignedDecimal(t) ==
    Reduce10((IF t # <<>> /\ t[1] = "-" THEN 0 - 1 ELSE 1)
                 * NatOf(SelectSeq(t, LAMBDA c : c \in Digit)),
             Pow10(FractionLen(Unsigned(t))))

FloatVal(s) == SignedDecimal(Strip(s))

(***************************************************************************)
(* _parse_mb8600_json                                                      *)
(***************************************************************************)
EmptyDict == [k \in {} |-> k]

\* variant: one dict shared by all calls (a class-level or default-argument
\* dict), so a call starts from the maps the previous call left
SharedResult ==
    LET done == SelectSeq(history, LAMBDA h : Returned(h.outcome))
    IN  IF done = <<>>
        THEN [downstream |-> EmptyDict, upstream |-> EmptyDict]
        ELSE [downstream |-> done[Len(done)].outcome.value.downstream,
              upstream |-> done[Len(done)].outcome.value.upstream]

\* result = {"downstream": {}, "upstream": {}}: a fresh dict per call
NewResult == [downstream |-> EmptyDict, upstream |-> EmptyDict]

\* d[k] := v on a dict
DictSet(d, k, v) == (k :> v) @@ d

\* data[k1][k2][k3] on nested dicts
Lookup3(data, k1, k2, k3) ==
    IF k1 \notin DOMAIN data THEN Raise("KeyError")
    ELSE IF k2 \notin DOMAIN data[k1] THEN Raise("KeyError")
    ELSE IF k3 \notin DOMAIN data[k1][k2] THEN Raise("KeyError")
    ELSE Ok(data[k1][k2][k3])

RecordSep == <<"|", "+", "|">>
FieldSep == <<"^">>

\* how each positional field of a record is read, in the order the code
\* evaluates them
DsKinds == <<"int", "str", "str", "int", "float", "float", "float", "int", "int">>
UsKinds == <<"int", "str", "str", "int", "int", "float", "float">>

RECURSIVE FieldError(_, _, _)
\* the exception of the first field read that fails, "none" if none does
FieldError(fields, kinds, i) ==
    IF i > Len(kinds) THEN "none"
    ELSE IF i > Len(fields) THEN "IndexError"
    ELSE IF kinds[i] = "int" /\ ~IntOk(fields[i]) THEN "ValueError"
    ELSE IF kinds[i] = "float" /\ ~FloatOk(fields[i]) THEN "ValueError"
    ELSE FieldError(fields, kinds, i + 1)

\* variant: the two error counters read from each other's position
DownstreamRecordSwapped(f) ==
    [channel |-> IntVal(f[1]), lock_status |-> f[2], modulation |-> f[3],
     channel_id |-> IntVal(f[4]), frequency |-> FloatVal(f[5]),
     power |-> FloatVal(f[6]), snr |-> FloatVal(f[7]),
     corrected_errors |-> IntVal(f[9]), uncorrected_errors |-> IntVal(f[8])]

DownstreamRecord(f) ==
    [channel |-> IntVal(f[1]), lock_status |-> f[2], modulation |-> f[3],
     channel_id |-> IntVal(f[4]), frequency |-> FloatVal(f[5]),
     power |-> FloatVal(f[6]), snr |-> FloatVal(f[7]),
     corrected_errors |-> IntVal(f[8]), uncorrected_errors |-> IntVal(f[9])]

UpstreamRecord(f) ==
    [channel |-> IntVal(f[1]), lock_status |-> f[2], modulation |-> f[3],
     channel_id |-> IntVal(f[4]), symbol_rate |-> IntVal(f[5]),
     frequency |-> FloatVal(f[6]), power |-> FloatVal(f[7])]

\* result[dir][channel_num] = {...}
StoreRecord(acc, r) == DictSet(acc, r.channel, r)

\* fields = channel_raw.split("^"), the reads of fields[0], fields[1], ... in
\* order and, when they all read, the record stored under its channel number
ReadFields(f, dir, acc) ==
    IF dir = "downstream"
    THEN IF FieldError(f, DsKinds, 1) # "none"
         THEN Raise(FieldError(f, DsKinds, 1))
         ELSE Ok(StoreRecord(acc, DownstreamRecord(f)))
    ELSE IF FieldError(f, UsKinds, 1) # "none"
         THEN Raise(FieldError(f, UsKinds, 1))
         ELSE Ok(StoreRecord(acc, UpstreamRecord(f)))

RECURSIVE ChannelLoop(_, _, _, _)
\* `for channel_raw in channels`: empty pieces skipped, each record stored
\* under its leading channel number; the first failing record aborts
ChannelLoop(raws, i, dir, acc) ==
    IF i > Len(raws) THEN Ok(acc)
    ELSE IF raws[i] = <<>> THEN ChannelLoop(raws, i + 1, dir, acc)
    ELSE Bind(ReadFields(SplitOn(raws[i], FieldSep), dir, acc),
              LAMBDA next : ChannelLoop(raws, i + 1, dir, next))

\* the channels of one direction, from the blob under data[k1][k2][k3]
ChannelBlob(data, k2, k3, dir, start) ==
    Bind(Lookup3(data, "GetMultipleHNAPsResponse", k2, k3),
         LAMBDA blob : ChannelLoop(SplitOn(blob, RecordSep), 1, dir, start))

_parse_mb8600_json(data) ==
    Bind(ChannelBlob(data, "GetMotoStatusDownstreamChannelInfoResponse",
                     "MotoConnDownstreamChannel", "downstream",
                     NewResult.downstream),
      LAMBDA ds :
        Bind(ChannelBlob(data, "GetMotoStatusUpstreamChannelInfoResponse",
                         "MotoConnUpstreamChannel", "upstream",
                         NewResult.upstream),
          LAMBDA us :
            Bind(Lookup3(data, "GetMultipleHNAPsResponse",
                         "GetMotoStatusConnectionInfoResponse",
                         "MotoConnSystemUpTime"),
              LAMBDA uptime_str :
                Bind(parse_uptime(uptime_str),
                  LAMBDA up :
                    Ok([downstream |-> ds, upstream |-> us,
                        system_uptime |-> up])))))

(***************************************************************************)
(* _parse_cgm4331com_html.  The document is what BeautifulSoup's lenient   *)
(* html.parser makes of the text: the "System Uptime:" label span and its  *)
(* next sibling span, and the tbody elements in document order, each a     *)
(* sequence of tr rows with the text of the row's th (if any) and the      *)
(* texts of the divs inside its td cells.                                  *)
(***************************************************************************)
Letter ==
    { "a", "b", "c", "d", "e", "f", "g", "h", "i", "j", "k", "l", "m",
      "n", "o", "p", "q", "r", "s", "t", "u", "v", "w", "x", "y", "z",
      "A", "B", "C", "D", "E", "F", "G", "H", "I", "J", "K", "L", "M",
      "N", "O", "P", "Q", "R", "S", "T", "U", "V", "W", "X", "Y", "Z" }

\* the regular expression classes \w and \s
WordChar == Digit \cup Letter \cup {"_"}

H_ChannelID == <<"C", "h", "a", "n", "n", "e", "l", " ", "I", "D">>
H_LockStatus == <<"L", "o", "c", "k", " ", "S", "t", "a", "t", "u", "s">>
H_Frequency == <<"F", "r", "e", "q", "u", "e", "n", "c", "y">>
H_SNR == <<"S", "N", "R">>
H_PowerLevel == <<"P", "o", "w", "e", "r", " ", "L", "e", "v", "e", "l">>
H_Modulation == <<"M", "o", "d", "u", "l", "a", "t", "i", "o", "n">>
H_SymbolRate == <<"S", "y", "m", "b", "o", "l", " ", "R", "a", "t", "e">>
H_Correctable ==
    <<"C", "o", "r", "r", "e", "c", "t", "a", "b", "l", "e", " ", "C", "o", "d", "e", "w", "o", "r", "d", "s">>
H_Uncorrectable ==
    <<"U", "n", "c", "o", "r", "r", "e", "c", "t", "a", "b", "l", "e", " ", "C", "o", "d", "e", "w", "o", "r", "d", "s">>
U_MHz == <<"M", "H", "z">>

RECURSIVE FindDigitRunsFrom(_, _, _)
FindDigitRunsFrom(s, i, acc) ==
    IF i > Len(s) THEN acc
    ELSE IF DigitRun(s, i) = 0 THEN FindDigitRunsFrom(s, i + 1, acc)
    ELSE FindDigitRunsFrom(s, i + DigitRun(s, i),
                           Append(acc, SubSeq(s, i, i + DigitRun(s, i) - 1)))

\* re.findall(r'\d+', s)
FindDigitRuns(s) == FindDigitRunsFrom(s, 1, <<>>)

\* re.sub(r'[^\d]', '', s)
DigitsOnly(s) == SelectSeq(s, LAMBDA c : c \in Digit)

RECURSIVE SplitGiantFrom(_, _, _)
\* the `while i < len(giant_id)` loop; i is 1-based here
SplitGiantFrom(giant_id, i, values) ==
    IF i > Len(giant_id) THEN values
    ELSE IF i + 2 <= Len(giant_id) /\ NatOf(SubSeq(giant_id, i, i + 2)) < 100
         THEN SplitGiantFrom(giant_id, i + 2,
                             Append(values, SubSeq(giant_id, i, i + 1)))
         ELSE SplitGiantFrom(giant_id, i + 1, Append(values, <<giant_id[i]>>))

\* variant: the loop stops one digit early, `while i < len(giant_id) - 1`
SplitGiantShort(giant_id) ==
    SplitGiantFrom(SubSeq(giant_id, 1, Len(giant_id) - 1), 1, <<>>)

SplitGiant(giant_id) == SplitGiantFrom(giant_id, 1, <<>>)

HasNewline(s) == \E i \in 1..Len(s) : s[i] = "\n"

\* s.split('\n', 1)[1] for an s that contains a newline
AfterFirstNewline(s) ==
    LET k == CHOOSE i \in 1..Len(s) :
                 s[i] = "\n" /\ \A j \in 1..(i - 1) : s[j] # "\n"
    IN  SubSeq(s, k + 1, Len(s))

\* th.text.strip().split('\n')[0].strip()
RowHeader(row) == Strip(SplitOn(Strip(row.th_text), <<"\n">>)[1])

\* [div.text.strip() for td in row.find_all("td") for div in td.find_all("div")]
TdValues(row) == [i \in 1..Len(row.divs) |-> Strip(row.divs[i])]

\* variant: a long first run is split whatever the number of runs
SplitIfFirstGiant(channel_ids) ==
    IF Len(channel_ids) >= 1 /\ Len(channel_ids[1]) > 3
    THEN SplitGiant(channel_ids[1])
    ELSE channel_ids

\* `if len(channel_ids) == 1 and len(channel_ids[0]) > 3`: a single long run
\* is split up
SplitIfGiant(channel_ids) ==
    IF Len(channel_ids) = 1 /\ Len(channel_ids[1]) > 3
    THEN SplitGiant(channel_ids[1])
    ELSE channel_ids

\* the digit runs of a "Channel ID" value blob
ChannelIdRuns(value_text) == SplitIfGiant(FindDigitRuns(value_text))

\* the values of one row of the downstream or the upstream table: the td
\* values, or for a "Channel ID" row without any the runs in the th text
RowValues(row) ==
    IF /\ TdValues(row) = <<>> /\ RowHeader(row) = H_ChannelID
       /\ HasNewline(Strip(row.th_text))
    THEN ChannelIdRuns(Strip(AfterFirstNewline(Strip(row.th_text))))
    ELSE TdValues(row)

\* the per-table dict header -> values, in insertion order
DataHas(data, h) == \E i \in 1..Len(data) : data[i].header = h

DataGet(data, h) ==
    data[CHOOSE i \in 1..Len(data) : data[i].header = h].values

\* data[h] = values
DataSet(data, h, values) ==
    IF DataHas(data, h)
    THEN [i \in 1..Len(data) |->
              IF data[i].header = h THEN [header |-> h, values |-> values]
              ELSE data[i]]
    ELSE Append(data, [header |-> h, values |-> values])

RECURSIVE GatherRows(_, _, _)
\* `for row in rows`: rows without a th are skipped
GatherRows(rows, i, data) ==
    IF i > Len(rows) THEN data
    ELSE IF ~rows[i].th THEN GatherRows(rows, i + 1, data)
    ELSE GatherRows(rows, i + 1,
                    DataSet(data, RowHeader(rows[i]), RowValues(rows[i])))

RECURSIVE MaxLen(_, _)
MaxLen(data, i) ==
    IF i > Len(data) THEN 0
    ELSE Max(Len(data[i].values), MaxLen(data, i + 1))

\* max([len(values) for values in data.values()]): ValueError on no rows
NumChannels(data) ==
    IF data = <<>> THEN Raise("ValueError") ELSE Ok(MaxLen(data, 1))

\* (\d+(?:\.\d+)?) at index i: the length matched, 0 for no match
NumberLen(s, i) ==
    IF DigitRun(s, i) = 0 THEN 0
    ELSE IF /\ i + DigitRun(s, i) <= Len(s) /\ s[i + DigitRun(s, i)] = "."
            /\ DigitRun(s, i + DigitRun(s, i) + 1) > 0
    THEN DigitRun(s, i) + 1 + DigitRun(s, i + DigitRun(s, i) + 1)
    ELSE DigitRun(s, i)

RECURSIVE RunOf(_, _, _)
\* number of consecutive characters of s from index i on that are in cls
RunOf(s, i, cls) ==
    IF i <= Len(s) /\ s[i] \in cls THEN 1 + RunOf(s, i + 1, cls) ELSE 0

FloatGreater(x, n) == x.num > n * x.den

\* the \w* at index u
UnitAt(value, u) == SubSeq(value, u, u + RunOf(value, u, WordChar) - 1)

\* variant: a frequency of exactly 1000000 is divided too
ScaledFrequencyFromMillion(freq, unit) ==
    IF unit # U_MHz /\ freq.num >= 1000000 * freq.den
    THEN Reduce10(freq.num, freq.den * 1000000)
    ELSE freq

\* `if unit != "MHz" and freq > 1000000: freq = freq / 1000000`
ScaledFrequency(freq, unit) ==
    IF unit # U_MHz /\ FloatGreater(freq, 1000000)
    THEN Reduce10(freq.num, freq.den * 1000000)
    ELSE freq

\* re.match(r'(\d+(?:\.\d+)?)\s*(\w*)', value) and the Hz -> MHz heuristic
FrequencyOf(value, old) ==
    IF NumberLen(value, 1) = 0 THEN old
    ELSE ScaledFrequency(
             FloatVal(SubSeq(value, 1, NumberLen(value, 1))),
             UnitAt(value, NumberLen(value, 1) + 1
                           + RunOf(value, NumberLen(value, 1) + 1, Whitespace)))

\* re.match of an optional sign of sg characters and (\d+(?:\.\d+)?)
SignedNumber(value, sg, old) ==
    IF NumberLen(value, 1 + sg) = 0 THEN old
    ELSE FloatVal(SubSeq(value, 1, sg + NumberLen(value, 1 + sg)))

\* re.match(r'(\d+(?:\.\d+)?)', value)
SnrOf(value, old) == SignedNumber(value, 0, old)

\* re.match(r'([+-]?\d+(?:\.\d+)?)', value)
PowerOf(value, old) ==
    SignedNumber(value,
                 IF value # <<>> /\ value[1] \in {"+", "-"} THEN 1 ELSE 0, old)

\* re.match(r'(\d+)', value)
SymbolRateOf(value, old) ==
    IF DigitRun(value, 1) = 0 THEN old
    ELSE NatOf(SubSeq(value, 1, DigitRun(value, 1)))

\* the if/elif chain on the row header, for one value of one channel
ApplyValue(dir, header, ch, value) ==
    IF header = H_LockStatus THEN [ch EXCEPT !.lock_status = value]
    ELSE IF header = H_Frequency
    THEN [ch EXCEPT !.frequency = FrequencyOf(value, @)]
    ELSE IF dir = "downstream" /\ header = H_SNR
    THEN [ch EXCEPT !.snr = SnrOf(value, @)]
    ELSE IF dir = "upstream" /\ header = H_SymbolRate
    THEN [ch EXCEPT !.symbol_rate = SymbolRateOf(value, @)]
    ELSE IF header = H_PowerLevel
    THEN [ch EXCEPT !.power = PowerOf(value, @)]
    ELSE IF header = H_Modulation THEN [ch EXCEPT !.modulation = value]
    ELSE ch

\* variant: the record's channel field set from the reported channel id
DefaultChannelById(dir, channel_num, channel_id) ==
    IF dir = "downstream"
    THEN [channel |-> channel_id, channel_id |-> channel_id,
          lock_status |-> <<>>, modulation |-> <<>>,
          frequency |-> FloatOfInt(0), power |-> FloatOfInt(0),
          snr |-> FloatOfInt(0), corrected_errors |-> 0,
          uncorrected_errors |-> 0]
    ELSE [channel |-> channel_id, channel_id |-> channel_id,
          lock_status |-> <<>>, modulation |-> <<>>,
          frequency |-> FloatOfInt(0), power |-> FloatOfInt(0),
          symbol_rate |-> 0]

\* the channel record created for position channel_num
DefaultChannel(dir, channel_num, channel_id) ==
    IF dir = "downstream"
    THEN [channel |-> channel_num, channel_id |-> channel_id,
          lock_status |-> <<>>, modulation |-> <<>>,
          frequency |-> FloatOfInt(0), power |-> FloatOfInt(0),
          snr |-> FloatOfInt(0), corrected_errors |-> 0,
          uncorrected_errors |-> 0]
    ELSE [channel |-> channel_num, channel_id |-> channel_id,
          lock_status |-> <<>>, modulation |-> <<>>,
          frequency |-> FloatOfInt(0), power |-> FloatOfInt(0),
          symbol_rate |-> 0]

\* `for i in range(num_channels)`: one record per position 1..num_channels
CreateChannels(dir, ids, num_channels) ==
    [channel_num \in 1..num_channels |->
        DefaultChannel(dir, channel_num,
            IF channel_num <= Len(ids) /\ IntOk(ids[channel_num])
            THEN IntVal(ids[channel_num]) ELSE channel_num)]

RECURSIVE ApplyValues(_, _, _, _, _)
\* `for i, value in enumerate(values)`
ApplyValues(dir, header, values, i, channels) ==
    IF i > Len(values) THEN channels
    ELSE IF i \notin DOMAIN channels
         THEN ApplyValues(dir, header, values, i + 1, channels)
         ELSE ApplyValues(dir, header, values, i + 1,
                  [channels EXCEPT ![i] = ApplyValue(dir, header, @, values[i])])

RECURSIVE ApplyRows(_, _, _, _)
\* `for header, values in data.items()`, the "Channel ID" row skipped
ApplyRows(dir, data, k, channels) ==
    IF k > Len(data) THEN channels
    ELSE IF data[k].header = H_ChannelID THEN ApplyRows(dir, data, k + 1, channels)
    ELSE ApplyRows(dir, data, k + 1,
                   ApplyValues(dir, data[k].header, data[k].values, 1, channels))

\* the channels of the gathered rows: created from the "Channel ID" row, then
\* filled in from the other rows
ChannelsOf(dir, data) ==
    Bind(NumChannels(data),
         LAMBDA num_channels :
           IF DataHas(data, H_ChannelID) /\ DataGet(data, H_ChannelID) # <<>>
           THEN Ok(ApplyRows(dir, data, 1,
                       CreateChannels(dir, DataGet(data, H_ChannelID),
                                      num_channels)))
           ELSE Ok(EmptyDict))

\* a channel table (tables[0] downstream, tables[1] upstream) to its map
ChannelTable(dir, rows) == ChannelsOf(dir, GatherRows(rows, 1, <<>>))

RECURSIVE Chunks(_, _, _, _)
\* `for i in range(0, len(big_value), chunk_size)`; i is 1-based here
Chunks(big_value, chunk_size, i, acc) ==
    IF i > Len(big_value) THEN acc
    ELSE Chunks(big_value, chunk_size, i + chunk_size,
                Append(acc, SubSeq(big_value, i,
                           IF i + chunk_size - 1 < Len(big_value)
                           THEN i + chunk_size - 1 ELSE Len(big_value))))

\* the digits of the th text cut into n chunks' worth of equal pieces, n the
\* number of channel ids gathered before this row
ChunkedValues(value_text, big_value, n) ==
    IF n = 0 THEN Raise("ZeroDivisionError")
    ELSE IF Len(big_value) \div n > 0
    THEN Ok(Chunks(big_value, Len(big_value) \div n, 1, <<>>))
    ELSE Ok(FindDigitRuns(value_text))

\* the values of a codeword row read from the th text
CodewordValues(value_text, error_data) ==
    IF DataHas(error_data, H_ChannelID)
    THEN ChunkedValues(value_text, DigitsOnly(value_text),
                       Len(DataGet(error_data, H_ChannelID)))
    ELSE Ok(FindDigitRuns(value_text))

\* the values of one row of the error table: the td values, or when there are
\* none the values in the th text after its first line
ErrorRowValues(row, error_data) ==
    IF TdValues(row) # <<>> \/ ~HasNewline(Strip(row.th_text))
    THEN Ok(TdValues(row))
    ELSE IF RowHeader(row) = H_ChannelID
    THEN Ok(ChannelIdRuns(Strip(AfterFirstNewline(Strip(row.th_text)))))
    ELSE IF RowHeader(row) \in {H_Correctable, H_Uncorrectable}
    THEN CodewordValues(Strip(AfterFirstNewline(Strip(row.th_text))), error_data)
    ELSE Ok(TdValues(row))

RECURSIVE GatherErrorRows(_, _, _)
GatherErrorRows(rows, i, error_data) ==
    IF i > Len(rows) THEN Ok(error_data)
    ELSE IF ~rows[i].th THEN GatherErrorRows(rows, i + 1, error_data)
    ELSE Bind(ErrorRowValues(rows[i], error_data),
              LAMBDA values :
                GatherErrorRows(rows, i + 1,
                    DataSet(error_data, RowHeader(rows[i]), values)))

\* variant: a value that does not convert aborts both writes of the channel
AssignErrorAborting(ch, i, corr, uncorr) ==
    IF \/ i <= Len(corr) /\ ~IntOk(corr[i])
       \/ i <= Len(uncorr) /\ ~IntOk(uncorr[i])
    THEN ch
    ELSE [ch EXCEPT
            !.corrected_errors = IF i <= Len(corr) THEN IntVal(corr[i]) ELSE @,
            !.uncorrected_errors =
                IF i <= Len(uncorr) THEN IntVal(uncorr[i]) ELSE @]

\* the two try/int()/except blocks for the channel at position i
AssignError(ch, i, corr, uncorr) ==
    [ch EXCEPT
       !.corrected_errors =
           IF i <= Len(corr) /\ IntOk(corr[i]) THEN IntVal(corr[i]) ELSE @,
       !.uncorrected_errors =
           IF i <= Len(uncorr) /\ IntOk(uncorr[i]) THEN IntVal(uncorr[i]) ELSE @]

\* variant: a record is created for every position of the error table's
\* Channel ID row that has none
AssignErrorsCreating(downstream, error_data) ==
    IF /\ DataHas(error_data, H_ChannelID)
       /\ DataHas(error_data, H_Correctable)
       /\ DataHas(error_data, H_Uncorrectable)
    THEN [k \in DOMAIN downstream
                \cup 1..Len(DataGet(error_data, H_ChannelID)) |->
             AssignError(IF k \in DOMAIN downstream THEN downstream[k]
                         ELSE DefaultChannel("downstream", k, k),
                         k,
                         DataGet(error_data, H_Correctable),
                         DataGet(error_data, H_Uncorrectable))]
    ELSE downstream

\* error values written into the downstream map, by position
AssignErrors(downstream, error_data) ==
    IF /\ DataHas(error_data, H_ChannelID)
       /\ DataHas(error_data, H_Correctable)
       /\ DataHas(error_data, H_Uncorrectable)
    THEN [k \in DOMAIN downstream |->
             IF k \in 1..Len(DataGet(error_data, H_ChannelID))
             THEN AssignError(downstream[k], k,
                              DataGet(error_data, H_Correctable),
                              DataGet(error_data, H_Uncorrectable))
             ELSE downstream[k]]
    ELSE downstream

\* soup.find("span", text="System Uptime:") and its next sibling span
FindUptime(doc) ==
    IF ~doc.uptime.label THEN Ok([found |-> FALSE])
    ELSE IF ~doc.uptime.sibling THEN Raise("AttributeError")
    ELSE Bind(parse_uptime(doc.uptime.text),
              LAMBDA seconds : Ok([found |-> TRUE, seconds |-> seconds]))

\* the returned dict: "system_uptime" is set only when the label was found
HtmlResult(up, downstream, upstream) ==
    IF up.found
    THEN [downstream |-> downstream, upstream |-> upstream,
          system_uptime |-> up.seconds]
    ELSE [downstream |-> downstream, upstream |-> upstream]

_parse_cgm4331com_html(doc) ==
    Bind(FindUptime(doc),
      LAMBDA up :
        IF Len(doc.tables) < 3
        THEN Ok(HtmlResult(up, NewResult.downstream, NewResult.upstream))
        ELSE Bind(ChannelTable("downstream", doc.tables[1]),
               LAMBDA ds :
                 Bind(ChannelTable("upstream", doc.tables[2]),
                   LAMBDA us :
                     Bind(GatherErrorRows(doc.tables[3], 1, <<>>),
                       LAMBDA error_data :
                         Ok(HtmlResult(up, AssignErrors(ds, error_data), us))))))

(***************************************************************************)
(* Uptime texts: up to MaxTokens tokens of a small vocabulary joined by    *)
(* single spaces.  The empty token yields leading, trailing and doubled    *)
(* spaces.                                                                 *)
(***************************************************************************)
UptimeTokens ==
    { <<>>,
      <<"1">>, <<"3">>, <<"-", "2">>,
      <<"d", "a", "y", "s">>,
      <<"0", "2", "h", ":", "0", "3", "m", ":", "0", "4", "s">>,
      <<"1", "0", "h", ":", "0", "m", ":", "5", "9", "s", "x">>,
      <<"4", "h">>, <<"5", "m">>, <<"6", "s">>, <<"-", "2", "h">>,
      <<"h", "o", "u", "r", "s">>, <<"m", "s">>,
      <<"n", "o", "n", "s", "e", "n", "s", "e">> }

RECURSIVE Join(_, _)
\* sep.join(pieces)
Join(pieces, sep) ==
    IF pieces = <<>> THEN <<>>
    ELSE IF Len(pieces) = 1 THEN pieces[1]
    ELSE pieces[1] \o sep \o Join(Tail(pieces), sep)

\* "3 days 4h 5m 6s"
LooseExampleText ==
    Join(<<<<"3">>, TokDays, <<"4", "h">>, <<"5", "m">>, <<"6", "s">>>>, <<" ">>)

UptimeTexts ==
    { Join(ts, <<" ">>) :
        ts \in UNION { [1..n -> UptimeTokens] : n \in 0..MaxTokens } }
    \cup {LooseExampleText}

(***************************************************************************)
(* JSON inputs: each blob is up to MaxRecords records of a small           *)
(* vocabulary joined by "|+|" (the empty record gives leading, trailing    *)
(* and doubled delimiters); each record is its fields joined by "^".       *)
(***************************************************************************)
\* the records of the vocabulary
Records ==
    [\* "1^locked^QAM256^5^549.0^5.1^40.2^0^0"
     DsRec1 |->
         Join(<<<<"1">>,
         <<"l", "o", "c", "k", "e", "d">>,
         <<"Q", "A", "M", "2", "5", "6">>,
         <<"5">>,
         <<"5", "4", "9", ".", "0">>,
         <<"5", ".", "1">>,
         <<"4", "0", ".", "2">>,
         <<"0">>,
         <<"0">>>>, FieldSep),
     \* "2^locked^QAM256^6^555.0^5.3^40.0^1^2"
     DsRec2 |->
         Join(<<<<"2">>,
         <<"l", "o", "c", "k", "e", "d">>,
         <<"Q", "A", "M", "2", "5", "6">>,
         <<"6">>,
         <<"5", "5", "5", ".", "0">>,
         <<"5", ".", "3">>,
         <<"4", "0", ".", "0">>,
         <<"1">>,
         <<"2">>>>, FieldSep),
     \* "1^^QAM64^7^-1.5^ 0^.5^9^9^junk"
     DsRec1Again |->
         Join(<<<<"1">>,
         <<>>,
         <<"Q", "A", "M", "6", "4">>,
         <<"7">>,
         <<"-", "1", ".", "5">>,
         <<" ", "0">>,
         <<".", "5">>,
         <<"9">>,
         <<"9">>,
         <<"j", "u", "n", "k">>>>, FieldSep),
     \* "3^locked^QAM256^5"
     DsRecShort |->
         Join(<<<<"3">>,
         <<"l", "o", "c", "k", "e", "d">>,
         <<"Q", "A", "M", "2", "5", "6">>,
         <<"5">>>>, FieldSep),
     \* "2^locked^QAM256^6^555.0^5.3^x^1^2"
     DsRecBadNumber |->
         Join(<<<<"2">>,
         <<"l", "o", "c", "k", "e", "d">>,
         <<"Q", "A", "M", "2", "5", "6">>,
         <<"6">>,
         <<"5", "5", "5", ".", "0">>,
         <<"5", ".", "3">>,
         <<"x">>,
         <<"1">>,
         <<"2">>>>, FieldSep),
     \* "0^locked^QAM256^5^549.0^5.1^40.2^-1^0"
     DsRecZero |->
         Join(<<<<"0">>,
         <<"l", "o", "c", "k", "e", "d">>,
         <<"Q", "A", "M", "2", "5", "6">>,
         <<"5">>,
         <<"5", "4", "9", ".", "0">>,
         <<"5", ".", "1">>,
         <<"4", "0", ".", "2">>,
         <<"-", "1">>,
         <<"0">>>>, FieldSep),
     \* "1^locked^SC-QAM^3^5120^36.5^44.0"
     UsRec1 |->
         Join(<<<<"1">>,
         <<"l", "o", "c", "k", "e", "d">>,
         <<"S", "C", "-", "Q", "A", "M">>,
         <<"3">>,
         <<"5", "1", "2", "0">>,
         <<"3", "6", ".", "5">>,
         <<"4", "4", ".", "0">>>>, FieldSep),
     \* "2^locked^SC-QAM^4^5120^36.5"
     UsRecShort |->
         Join(<<<<"2">>,
         <<"l", "o", "c", "k", "e", "d">>,
         <<"S", "C", "-", "Q", "A", "M">>,
         <<"4">>,
         <<"5", "1", "2", "0">>,
         <<"3", "6", ".", "5">>>>, FieldSep),
     \* "2^locked^SC-QAM^4^5.12^36.5^44.0"
     UsRecBadNumber |->
         Join(<<<<"2">>,
         <<"l", "o", "c", "k", "e", "d">>,
         <<"S", "C", "-", "Q", "A", "M">>,
         <<"4">>,
         <<"5", ".", "1", "2">>,
         <<"3", "6", ".", "5">>,
         <<"4", "4", ".", "0">>>>, FieldSep)]

DsRecords == {<<>>, Records.DsRec1, Records.DsRec2, Records.DsRec1Again, Records.DsRecShort, Records.DsRecBadNumber, Records.DsRecZero}

UsRecords == {<<>>, Records.UsRec1, Records.UsRecShort, Records.UsRecBadNumber}

Blobs(records) ==
    { Join(rs, RecordSep) :
        rs \in UNION { [1..n -> records] : n \in 0..MaxRecords } }

\* "1 days 02h:03m:04s", "3 days 4h 5m 6s", "hours"
JsonUptimes ==
    { Join(<<<<"1">>, TokDays, <<"0", "2", "h", ":", "0", "3", "m", ":", "0", "4", "s">>>>, <<" ">>),
      Join(<<<<"3">>, TokDays, <<"4", "h">>, <<"5", "m">>, <<"6", "s">>>>, <<" ">>),
      <<"h", "o", "u", "r", "s">> }

\* "1 days 4h"
GoodUptimeText == Join(<<<<"1">>, TokDays, <<"4", "h">>>>, <<" ">>)

\* the HNAP response envelope; a key of `absent` is left out of its dict
Envelope(dsb, usb, up, absent) ==
    LET Entry(k, v) == IF k \in absent THEN EmptyDict ELSE (k :> v)
        inner ==
            Entry("GetMotoStatusDownstreamChannelInfoResponse",
                  Entry("MotoConnDownstreamChannel", dsb))
            @@ Entry("GetMotoStatusUpstreamChannelInfoResponse",
                     Entry("MotoConnUpstreamChannel", usb))
            @@ Entry("GetMotoStatusConnectionInfoResponse",
                     Entry("MotoConnSystemUpTime", up))
    IN  Entry("GetMultipleHNAPsResponse", inner)

JsonKeys ==
    { "GetMultipleHNAPsResponse",
      "GetMotoStatusDownstreamChannelInfoResponse", "MotoConnDownstreamChannel",
      "GetMotoStatusUpstreamChannelInfoResponse", "MotoConnUpstreamChannel",
      "GetMotoStatusConnectionInfoResponse", "MotoConnSystemUpTime" }

\* the responses: the two loops of the parser do not read each other's blob,
\* so each blob varies over all its values against a few values of the other
\* (empty, good, failing); then the responses that lack one key
JsonInputs ==
    { Envelope(d, u, t, {}) :
        d \in Blobs(DsRecords), u \in {<<>>, Records.UsRec1, Records.UsRecBadNumber},
        t \in JsonUptimes }
    \cup { Envelope(d, u, t, {}) :
              d \in {<<>>, Records.DsRec1}, u \in Blobs(UsRecords), t \in JsonUptimes }
    \cup { Envelope(Records.DsRec1, Records.UsRec1, t, {k}) : t \in JsonUptimes, k \in JsonKeys }

(***************************************************************************)
(* HTML inputs: each table is up to MaxRows rows of a small vocabulary.    *)
(***************************************************************************)
\* the rows of the vocabulary
Rows ==
    [DsIdsDivs |->
         [th |-> TRUE, th_text |-> H_ChannelID,
         divs |-> <<<<"5">>, <<"6">>>>],
     DsIdsBlob |->
         [th |-> TRUE, th_text |-> H_ChannelID \o <<"\n", "1", "2", "3", "4", "5", "6">>,
         divs |-> <<>>],
     DsLock |->
         [th |-> TRUE, th_text |-> H_LockStatus,
         divs |-> <<<<"L", "o", "c", "k", "e", "d">>, <<" ", "L", "o", "c", "k", "e", "d", " ">>, <<"L", "o", "c", "k", "e", "d">>>>],
     DsFrequency |->
         [th |-> TRUE, th_text |-> H_Frequency,
         divs |-> <<<<"5", "4", "9", "0", "0", "0", "0", "0", "0", " ", "H", "z">>, <<"5", "5", "5", " ", "M", "H", "z">>>>],
     DsPower |->
         [th |-> TRUE, th_text |-> H_PowerLevel,
         divs |-> <<<<"-", "1", ".", "5", " ", "d", "B", "m", "V">>, <<"+", "2">>>>],
     DsSnr |->
         [th |-> TRUE, th_text |-> H_SNR,
         divs |-> <<<<"3", "8", ".", "5", " ", "d", "B">>, <<"-", "2", " ", "d", "B">>, <<"+", "4", "0">>>>],
     NoThRow |->
         [th |-> FALSE, th_text |-> <<>>,
         divs |-> <<<<"7">>>>],
     UsIdsDivs |->
         [th |-> TRUE, th_text |-> H_ChannelID,
         divs |-> <<<<"3">>, <<"x">>>>],
     UsIdsRuns |->
         [th |-> TRUE, th_text |-> H_ChannelID \o <<"\n", "1", "2", "3", "4", " ", "5">>,
         divs |-> <<>>],
     UsSymbolRate |->
         [th |-> TRUE, th_text |-> H_SymbolRate,
         divs |-> <<<<"5", "1", "2", "0">>, <<"2", "5", "6", "0", " ", "K", "s", "p", "s">>>>],
     UsFrequency |->
         [th |-> TRUE, th_text |-> H_Frequency,
         divs |-> <<<<"3", "6", ".", "5">>, <<"1", "0", "0", "0", "0", "0", "0">>,
                   <<"1", "0", "0", "0", "0", "0", "1">>,
                   <<"2", "0", "0", "0", "0", "0", "0", "M", "H", "z">>,
                   <<"M", "H", "z">>>>],
     ErrIdsDivs |->
         [th |-> TRUE, th_text |-> H_ChannelID,
         divs |-> <<<<"5">>, <<"6">>>>],
     ErrIdsEmpty |->
         [th |-> TRUE, th_text |-> H_ChannelID,
         divs |-> <<>>],
     ErrCorrBlob |->
         [th |-> TRUE, th_text |-> H_Correctable \o <<"\n", "1", "2", "3", "4", "5", "6", "7">>,
         divs |-> <<>>],
     ErrCorrDivs |->
         [th |-> TRUE, th_text |-> H_Correctable,
         divs |-> <<<<"1", "0">>, <<"-", "5">>, <<"7">>>>],
     ErrUncorrDivs |->
         [th |-> TRUE, th_text |-> H_Uncorrectable,
         divs |-> <<<<"x">>, <<"3">>>>],
     ErrUncorrRuns |->
         [th |-> TRUE, th_text |-> H_Uncorrectable \o <<"\n", "1", "2", " ", "3">>,
         divs |-> <<>>]]

DsRows == {Rows.DsIdsDivs, Rows.DsIdsBlob, Rows.DsLock, Rows.DsFrequency, Rows.DsPower, Rows.NoThRow}

UsRows == {Rows.UsIdsDivs, Rows.UsIdsRuns, Rows.UsSymbolRate, Rows.UsFrequency, Rows.NoThRow}

ErrRows == {Rows.ErrIdsDivs, Rows.ErrIdsEmpty, Rows.ErrCorrBlob, Rows.ErrCorrDivs, Rows.ErrUncorrDivs, Rows.ErrUncorrRuns, Rows.NoThRow}

Tables(rows) == UNION { [1..n -> rows] : n \in 0..MaxRows }

GoodDsTable == <<Rows.DsIdsDivs, Rows.DsFrequency>>
GoodUsTable == <<Rows.UsIdsDivs, Rows.UsSymbolRate>>
GoodErrTable == <<Rows.ErrIdsDivs, Rows.ErrCorrDivs, Rows.ErrUncorrDivs>>

\* the tbody sequences: fewer than three tables, and three or four tables
\* of which one varies over all its tables while the others are fixed (the
\* error table also against a six-channel and an empty downstream table),
\* and one document with an SNR row and Power Level rows in both directions
TableSeqs ==
    {<<>>}
    \cup { <<d>> : d \in Tables(DsRows) }
    \cup { <<d, u>> : d \in Tables(DsRows), u \in {<<>>, GoodUsTable} }
    \cup { <<d, GoodUsTable, GoodErrTable>> : d \in Tables(DsRows) }
    \cup { <<GoodDsTable, u, GoodErrTable>> : u \in Tables(UsRows) }
    \cup { <<d, GoodUsTable, e>> :
             d \in {GoodDsTable, <<Rows.DsIdsBlob>>, <<Rows.DsLock>>}, e \in Tables(ErrRows) }
    \cup { <<GoodDsTable, GoodUsTable, GoodErrTable, <<Rows.NoThRow>> >>,
           << <<Rows.DsIdsDivs, Rows.DsSnr, Rows.DsPower>>,
              <<Rows.UsIdsDivs, Rows.DsPower>>, GoodErrTable >> }

\* no label; a label without a value span; a label with a value span
HtmlUptimes ==
    { [label |-> FALSE, sibling |-> FALSE, text |-> <<>>],
      [label |-> TRUE, sibling |-> FALSE, text |-> <<>>] }
    \cup { [label |-> TRUE, sibling |-> TRUE, text |-> t] : t \in JsonUptimes }

\* the documents: the uptime lookup does not read the tables, so every table
\* sequence comes without the label and with a good uptime, and every uptime
\* with no table, with one table and with three good tables
HtmlInputs ==
    { [uptime |-> up, tables |-> ts] :
        up \in { [label |-> FALSE, sibling |-> FALSE, text |-> <<>>],
                 [label |-> TRUE, sibling |-> TRUE, text |-> GoodUptimeText] },
        ts \in TableSeqs }
    \cup { [uptime |-> up, tables |-> ts] :
              up \in HtmlUptimes,
              ts \in { <<>>, <<GoodDsTable>>,
                       <<GoodDsTable, GoodUsTable, GoodErrTable>> } }

(***************************************************************************)
(* sensor.py: get_downstream_value and get_upstream_value.  A Python       *)
(* object is a record of its type and its value: i for an int, s for the   *)
(* text of a str, d for the items of a dict, a sequence of <<key, value>>  *)
(* pairs in insertion order.                                               *)
(***************************************************************************)
None == [type |-> "NoneType", i |-> 0, s |-> <<>>, d |-> <<>>]

\* the key names, as text
Key ==
    [downstream |-> <<"d", "o", "w", "n", "s", "t", "r", "e", "a", "m">>,
     upstream |-> <<"u", "p", "s", "t", "r", "e", "a", "m">>,
     snr |-> <<"s", "n", "r">>,
     power |-> <<"p", "o", "w", "e", "r">>,
     frequency |-> <<"f", "r", "e", "q", "u", "e", "n", "c", "y">>,
     corrected_errors |-> <<"c", "o", "r", "r", "e", "c", "t", "e", "d", "_",
                            "e", "r", "r", "o", "r", "s">>,
     uncorrected_errors |-> <<"u", "n", "c", "o", "r", "r", "e", "c", "t",
                              "e", "d", "_", "e", "r", "r", "o", "r", "s">>,
     symbol_rate |-> <<"s", "y", "m", "b", "o", "l", "_", "r", "a", "t", "e">>]

IntObj(n) == [type |-> "int", i |-> n, s |-> <<>>, d |-> <<>>]

StrObj(s) == [type |-> "str", i |-> 0, s |-> s, d |-> <<>>]

DictObj(items) == [type |-> "dict", i |-> 0, s |-> <<>>, d |-> items]

\* the dict has an item under a key equal to k
HasKey(dict, k) == \E n \in 1..Len(dict.d) : dict.d[n][1] = k

\* the value of the dict's item under k
Item(dict, k) == dict.d[CHOOSE n \in 1..Len(dict.d) : dict.d[n][1] = k][2]

\* x in container
Contains(x, container) ==
    CASE container.type = "dict" -> Ok(HasKey(container, x))
      [] container.type = "str" ->
            IF x.type = "str"
            THEN Ok(\E n \in 1..(Len(container.s) + 1) :
                      StartsAt(container.s, n, x.s))
            ELSE Raise("TypeError")
      [] OTHER -> Raise("TypeError")

\* container[x]
GetItem(container, x) ==
    CASE container.type = "dict" ->
            IF HasKey(container, x) THEN Ok(Item(container, x))
            ELSE Raise("KeyError")
      [] container.type = "str" ->
            IF x.type # "int" THEN Raise("TypeError")
            ELSE IF x.i + 1 \in 1..Len(container.s)
            THEN Ok(StrObj(<<container.s[x.i + 1]>>))
            ELSE IF 0 - x.i \in 1..Len(container.s)
            THEN Ok(StrObj(<<container.s[Len(container.s) + x.i + 1]>>))
            ELSE Raise("IndexError")
      [] OTHER -> Raise("TypeError")

\* `if x not in container: return None`, then the rest of the body
IfContains(x, container, Rest) ==
    Bind(Contains(x, container),
         LAMBDA found : IF found THEN Rest ELSE Ok(None))

\* variant: no except clause, the exception reaches the caller
Uncaught(o) == o

\* `except Exception as e: ... return None`
Caught(o) == IF Returned(o) THEN o ELSE Ok(None)

\* the body of the try block, the direction's key being "downstream" or
\* "upstream"
ValueIn(direction, data, key, channel) ==
    \* `not data` is true of None, 0, "" and {}
    IF data.type # "dict" \/ data.d = <<>> THEN Ok(None)
    ELSE IfContains(direction, data,
           Bind(GetItem(data, direction),
             LAMBDA channels :
               IfContains(channel, channels,
                 Bind(GetItem(channels, channel),
                   LAMBDA record :
                     IfContains(key, record, GetItem(record, key))))))

get_downstream_value(data, key, channel) ==
    Caught(ValueIn(StrObj(Key.downstream), data, key, channel))

get_upstream_value(data, key, channel) ==
    Caught(ValueIn(StrObj(Key.upstream), data, key, channel))

(***************************************************************************)
(* Sensor inputs: the data a sensor is handed, from nothing at all to a    *)
(* well-formed model, with a value of the wrong type at each level.        *)
(***************************************************************************)
\* The arguments of one query.  Records: what can stand where a channel
\* record is expected.  Maps: what can stand where a direction map is
\* expected, maps with the keys 1 and 2, with the key 2 alone or with no key,
\* and values that are no map.
SensorInputs ==
    LET records ==
          { DictObj(<< <<StrObj(Key.snr), IntObj(40)>>,
                       <<StrObj(Key.power), StrObj(<<"5">>)>> >>),
            DictObj(<< <<StrObj(Key.snr), None>> >>),
            DictObj(<<>>),
            StrObj(<<"n", "o", " ", "s", "n", "r">>),
            None }
        maps ==
          { DictObj(<< <<IntObj(1), r1>>, <<IntObj(2), r2>> >>) :
              r1, r2 \in records }
          \cup { DictObj(<< <<IntObj(2), r>> >>) : r \in records }
          \cup { DictObj(<<>>),
                 DictObj(<< <<StrObj(Key.snr), IntObj(40)>> >>),
                 StrObj(<<"1">>), IntObj(1), None }
        data ==
          { None, IntObj(0), IntObj(1), StrObj(<<>>), StrObj(Key.downstream),
            DictObj(<<>>) }
          \cup { DictObj(<< <<StrObj(Key.downstream), m>> >>) : m \in maps }
          \cup { DictObj(<< <<StrObj(Key.upstream), m>> >>) : m \in maps }
          \cup { DictObj(<< <<StrObj(Key.downstream), m>>,
                            <<StrObj(Key.upstream), m>> >>) : m \in maps }
    IN  [data : data,
         key : {StrObj(Key.snr), StrObj(Key.power)},
         channel : {IntObj(1), IntObj(2), IntObj(0 - 1)}]

(***************************************************************************)
(* sensor.py: the entities async_setup_entry creates and the two           *)
(* properties of ArrisModemSensor that read the coordinator's data.        *)
(***************************************************************************)
\* entities.append(ArrisModemSensor(coordinator, description, channel,
\* direction)) for the channels 1..32 of DOWNSTREAM_SENSORS and the channels
\* 1..8 of UPSTREAM_SENSORS; value_fn is the description's function
Entities ==
    { [_direction |-> "Downstream", key |-> StrObj(k), _channel |-> IntObj(c),
       value_fn |-> "get_downstream_value"] :
         k \in {Key.frequency, Key.power, Key.snr, Key.corrected_errors,
                Key.uncorrected_errors},
         c \in 1..32 }
    \cup
    { [_direction |-> "Upstream", key |-> StrObj(k), _channel |-> IntObj(c),
       value_fn |-> "get_upstream_value"] :
         k \in {Key.frequency, Key.power, Key.symbol_rate},
         c \in 1..8 }

\* ArrisModemSensor.native_value; every description has a value_fn
native_value(self, data) ==
    IF data = None THEN Ok(None)
    ELSE IF self.value_fn = "get_downstream_value"
    THEN get_downstream_value(data, self.key, self._channel)
    ELSE get_upstream_value(data, self.key, self._channel)

\* variant: the channel number is not looked up
availableOfMap(self, data) ==
    IF data = None THEN Ok(FALSE)
    ELSE Bind(Contains(StrObj(IF self._direction = "Downstream"
                              THEN Key.downstream ELSE Key.upstream), data),
              LAMBDA found : Ok(found))

\* ArrisModemSensor.available
available(self, data) ==
    IF data = None THEN Ok(FALSE)
    ELSE Bind(Contains(StrObj(IF self._direction = "Downstream"
                              THEN Key.downstream ELSE Key.upstream), data),
           LAMBDA found :
             IF ~found THEN Ok(FALSE)
             ELSE Bind(GetItem(data, StrObj(IF self._direction = "Downstream"
                                            THEN Key.downstream
                                            ELSE Key.upstream)),
                    LAMBDA channels :
                      Bind(Contains(self._channel, channels),
                           LAMBDA has : Ok(has))))

(***************************************************************************)
(* The coordinator object and the single-call specifications.              *)
(***************************************************************************)
Pending == [exc |-> "pending"]

Coordinators ==
    [model : {"MB8600", "CGM4331COM", "CGM4981COM"},
     username : BOOLEAN, password : BOOLEAN]

IdleCoordinator == [model |-> "MB8600", username |-> FALSE, password |-> FALSE]

InitUptime ==
    /\ coordinator = IdleCoordinator
    /\ history = <<>>
    /\ fn = "parse_uptime"
    /\ arg \in UptimeTexts
    /\ ret = Pending

CallUptime ==
    /\ fn = "parse_uptime"
    /\ ret = Pending
    /\ ret' = parse_uptime(arg)
    /\ UNCHANGED <<coordinator, history, fn, arg>>

InitJson ==
    /\ coordinator = IdleCoordinator
    /\ history = <<>>
    /\ fn = "_parse_mb8600_json"
    /\ arg \in JsonInputs
    /\ ret = Pending

CallJson ==
    /\ fn = "_parse_mb8600_json"
    /\ ret = Pending
    /\ ret' = _parse_mb8600_json(arg)
    /\ UNCHANGED <<coordinator, history, fn, arg>>

NextJson == CallJson

SpecJson == InitJson /\ [][NextJson]_vars

InitHtml ==
    /\ coordinator = IdleCoordinator
    /\ history = <<>>
    /\ fn = "_parse_cgm4331com_html"
    /\ arg \in HtmlInputs
    /\ ret = Pending

CallHtml ==
    /\ fn = "_parse_cgm4331com_html"
    /\ ret = Pending
    /\ ret' = _parse_cgm4331com_html(arg)
    /\ UNCHANGED <<coordinator, history, fn, arg>>

NextHtml == CallHtml

SpecHtml == InitHtml /\ [][NextHtml]_vars

NextUptime == CallUptime

SpecUptime == InitUptime /\ [][NextUptime]_vars

InitSensor ==
    /\ coordinator = IdleCoordinator
    /\ history = <<>>
    /\ fn \in {"get_downstream_value", "get_upstream_value"}
    /\ arg \in SensorInputs
    /\ ret = Pending

CallDownstreamValue ==
    /\ fn = "get_downstream_value"
    /\ ret = Pending
    /\ ret' = get_downstream_value(arg.data, arg.key, arg.channel)
    /\ UNCHANGED <<coordinator, history, fn, arg>>

CallUpstreamValue ==
    /\ fn = "get_upstream_value"
    /\ ret = Pending
    /\ ret' = get_upstream_value(arg.data, arg.key, arg.channel)
    /\ UNCHANGED <<coordinator, history, fn, arg>>

NextSensor == CallDownstreamValue \/ CallUpstreamValue

\* one query of a sensor on any data
SpecSensor == InitSensor /\ [][NextSensor]_vars

InitParsers == InitJson \/ InitHtml

NextParsers == CallJson \/ CallHtml

\* either parser, called once on any of its inputs
SpecParsers == InitParsers /\ [][NextParsers]_vars

(***************************************************************************)
(* The coordinator with a sequence of parser calls on it.                  *)
(***************************************************************************)
CallJsonInputs ==
    { Envelope(Join(<<Records.DsRec1, Records.DsRec2>>, RecordSep), Records.UsRec1, GoodUptimeText, {}),
      Envelope(Records.DsRecZero, <<>>, GoodUptimeText, {}),
      Envelope(Records.DsRecShort, Records.UsRec1, GoodUptimeText, {}) }

CallHtmlInputs ==
    { [uptime |-> [label |-> FALSE, sibling |-> FALSE, text |-> <<>>],
       tables |-> <<>>],
      [uptime |-> [label |-> TRUE, sibling |-> TRUE, text |-> GoodUptimeText],
       tables |-> <<GoodDsTable, GoodUsTable, GoodErrTable>>],
      [uptime |-> [label |-> TRUE, sibling |-> FALSE, text |-> <<>>],
       tables |-> <<GoodDsTable>>] }

Init ==
    /\ coordinator \in Coordinators
    /\ history = <<>>
    /\ fn = "none"
    /\ arg = <<>>
    /\ ret = Pending

\* self._parse_mb8600_json(data), start to return
ParseJsonCall ==
    \E data \in CallJsonInputs :
        /\ Len(history) < MaxCalls
        /\ history' = Append(history,
               [fn |-> "_parse_mb8600_json", input |-> data,
                outcome |-> _parse_mb8600_json(data)])
        /\ UNCHANGED <<coordinator, fn, arg, ret>>

\* self._parse_cgm4331com_html(html), start to return
ParseHtmlCall ==
    \E doc \in CallHtmlInputs :
        /\ Len(history) < MaxCalls
        /\ history' = Append(history,
               [fn |-> "_parse_cgm4331com_html", input |-> doc,
                outcome |-> _parse_cgm4331com_html(doc)])
        /\ UNCHANGED <<coordinator, fn, arg, ret>>

Next == ParseJsonCall \/ ParseHtmlCall

Spec == Init /\ [][Next]_vars

(***************************************************************************)
(* _async_update_data: one update cycle.  The device's side of the cycle   *)
(* is the argument: the status of the login response and whether it set    *)
(* cookies, the status and the body of the data response, and the request  *)
(* (if any) during which the 10 s timeout or a connection error strikes.   *)
(* The requests sent and the parser call made are recorded in history.     *)
(***************************************************************************)
UpdateInputs ==
    [status : {200, 301, 302, 401},
     cookies : BOOLEAN,
     data_status : {200, 404, 500},
     json_ok : BOOLEAN,
     json : CallJsonInputs,
     html : CallHtmlInputs,
     fault : [at : {"none"}, exc : {"none"}]
             \cup [at : {"HNAP1", "check.jst", "network_setup.jst"},
                   exc : {"TimeoutError", "ClientConnectorError"}]]

\* variant: no request carries cookies
RequestBare(url, cookies) == [url |-> url, cookies |-> FALSE]

\* one request: the url's last part and whether it carries the cookies; a
\* parser call is recorded the same way, under the parser's name
Request(url, cookies) == [url |-> url, cookies |-> cookies]

\* `async with self.session.post/get(...) as response` for the last request
\* of sent: the fault striking first, then response.raise_for_status(), then
\* the rest of the block
Respond(env, status, sent, Rest) ==
    IF env.fault.at = sent[Len(sent)].url
    THEN [sent |-> sent, outcome |-> Raise(env.fault.exc)]
    ELSE IF status >= 400
    THEN [sent |-> sent, outcome |-> Raise("ClientResponseError")]
    ELSE Rest

\* the body of the try block: the requests it sent, the parser call it made,
\* and its outcome
UpdateBody(self, env) ==
    IF self.model = "MB8600"
    THEN Respond(env, env.data_status, <<Request("HNAP1", FALSE)>>,
           IF env.json_ok
           THEN [sent |-> <<Request("HNAP1", FALSE),
                            Request("_parse_mb8600_json", FALSE)>>,
                 outcome |-> _parse_mb8600_json(env.json)]
           ELSE [sent |-> <<Request("HNAP1", FALSE)>>,
                 outcome |-> Raise("ContentTypeError")])
    ELSE IF ~self.username \/ ~self.password
    THEN [sent |-> <<>>, outcome |-> Raise("UpdateFailed")]
    ELSE IF env.fault.at = "check.jst"
    THEN [sent |-> <<Request("check.jst", FALSE)>>,
          outcome |-> Raise(env.fault.exc)]
    ELSE IF env.status \notin {301, 302} \/ ~env.cookies
    THEN [sent |-> <<Request("check.jst", FALSE)>>,
          outcome |-> Raise("UpdateFailed")]
    ELSE Respond(env, env.data_status,
           <<Request("check.jst", FALSE),
             Request("network_setup.jst", env.cookies)>>,
           [sent |-> <<Request("check.jst", FALSE),
                       Request("network_setup.jst", env.cookies),
                       Request("_parse_cgm4331com_html", FALSE)>>,
            outcome |-> _parse_cgm4331com_html(env.html)])

\* variant: no except clause around the body
Unwrapped(o) == o

\* `except Exception as err: raise UpdateFailed(...)`
Wrapped(o) == IF Returned(o) THEN o ELSE Raise("UpdateFailed")

InitUpdate ==
    /\ coordinator \in Coordinators
    /\ history = <<>>
    /\ fn = "_async_update_data"
    /\ arg \in UpdateInputs
    /\ ret = Pending

\* await self._async_update_data(), start to return
_async_update_data ==
    /\ fn = "_async_update_data"
    /\ ret = Pending
    /\ history' = UpdateBody(coordinator, arg).sent
    /\ ret' = Wrapped(UpdateBody(coordinator, arg).outcome)
    /\ UNCHANGED <<coordinator, fn, arg>>

NextUpdate == _async_update_data

\* one update cycle of any coordinator against any device behaviour
SpecUpdate == InitUpdate /\ [][NextUpdate]_vars

(***************************************************************************)
(* The digit-splitting loop alone, on every run of more than 3 and up to   *)
(* MaxDigits digits over the digits 0, 1 and 9.                            *)
(***************************************************************************)
InitSplit ==
    /\ coordinator = IdleCoordinator
    /\ history = <<>>
    /\ fn = "split"
    /\ arg \in UNION { [1..n -> {"0", "1", "9"}] : n \in 4..MaxDigits }
    /\ ret = Pending

\* `giant_id = channel_ids[0]` and the while loop, start to end
CallSplit ==
    /\ fn = "split"
    /\ ret = Pending
    /\ ret' = Ok(SplitGiant(arg))
    /\ UNCHANGED <<coordinator, history, fn, arg>>

NextSplit == CallSplit

SpecSplit == InitSplit /\ [][NextSplit]_vars

InitEntity ==
    /\ coordinator = IdleCoordinator
    /\ history = <<>>
    /\ fn = "ArrisModemSensor"
    /\ arg \in [self : Entities, data : { x.data : x \in SensorInputs }]
    /\ ret = [available |-> Pending, native_value |-> Pending]

CallAvailable ==
    /\ fn = "ArrisModemSensor"
    /\ ret.available = Pending
    /\ ret' = [ret EXCEPT !.available = available(arg.self, arg.data)]
    /\ UNCHANGED <<coordinator, history, fn, arg>>

CallNativeValue ==
    /\ fn = "ArrisModemSensor"
    /\ ret.native_value = Pending
    /\ ret' = [ret EXCEPT !.native_value = native_value(arg.self, arg.data)]
    /\ UNCHANGED <<coordinator, history, fn, arg>>

NextEntity == CallAvailable \/ CallNativeValue

\* the two properties of one entity read, in either order, on any data
SpecEntity == InitEntity /\ [][NextEntity]_vars

(***************************************************************************)
(* __init__.py: async_setup_entry and async_unload_entry.  arg is the hass *)
(* object; arg.data is hass.data, a function whose only possible key is    *)
(* DOMAIN, and arg.data["DOMAIN"] a function from entry ids to             *)
(* coordinators.  history lists what the two handlers did, in order: the   *)
(* first refresh, the store, the forward to the sensor platform, the       *)
(* platform unload and the pop, each with the entry's id and whether it    *)
(* went through.  The framework calls are the handlers' inputs:            *)
(* async_config_entry_first_refresh returns or raises, and so does         *)
(* async_forward_entry_setups; async_unload_platforms reports a bool.      *)
(***************************************************************************)
InitSetup ==
    /\ coordinator \in Coordinators
    /\ history = <<>>
    /\ fn = "none"
    /\ arg = [data |-> <<>>]
    /\ ret = Pending

async_setup_entry ==
    \E entry \in {"entry_1", "entry_2"}, refreshed \in BOOLEAN,
       forwarded \in BOOLEAN :
        /\ Len(history) + 3 <= MaxEvents
        /\ fn' = "async_setup_entry"
        /\ IF ~refreshed
           \* await coordinator.async_config_entry_first_refresh() raises
           THEN /\ history' = Append(history,
                       [op |-> "async_config_entry_first_refresh",
                        entry |-> entry, ok |-> FALSE])
                /\ arg' = arg
                /\ ret' = Raise("ConfigEntryNotReady")
           \* hass.data.setdefault(DOMAIN, {})[entry.entry_id] = coordinator
           ELSE /\ arg' = [arg EXCEPT !.data =
                       [d \in {"DOMAIN"} |->
                          [e \in (IF "DOMAIN" \in DOMAIN arg.data
                                  THEN DOMAIN arg.data["DOMAIN"] ELSE {})
                                 \cup {entry} |->
                             IF e = entry THEN coordinator
                             ELSE arg.data["DOMAIN"][e]]]]
                /\ history' = history \o
                      << [op |-> "async_config_entry_first_refresh",
                          entry |-> entry, ok |-> TRUE],
                         [op |-> "setdefault", entry |-> entry, ok |-> TRUE],
                         [op |-> "async_forward_entry_setups",
                          entry |-> entry, ok |-> forwarded] >>
                /\ ret' = IF forwarded THEN Ok(TRUE) ELSE Raise("Exception")
        /\ UNCHANGED coordinator

\* variant: the entry is popped whatever the platform unload reported
async_unload_entry_popping ==
    \E entry \in {"entry_1", "entry_2"}, unload_ok \in BOOLEAN :
        /\ Len(history) + 2 <= MaxEvents
        /\ fn' = "async_unload_entry"
        /\ IF /\ "DOMAIN" \in DOMAIN arg.data
              /\ entry \in DOMAIN arg.data["DOMAIN"]
           THEN /\ arg' = [arg EXCEPT !.data =
                       [d \in {"DOMAIN"} |->
                          [e \in DOMAIN arg.data["DOMAIN"] \ {entry} |->
                             arg.data["DOMAIN"][e]]]]
                /\ history' = history \o
                      << [op |-> "async_unload_platforms",
                          entry |-> entry, ok |-> unload_ok],
                         [op |-> "pop", entry |-> entry, ok |-> TRUE] >>
                /\ ret' = Ok(unload_ok)
           ELSE /\ arg' = arg
                /\ history' = history \o
                      << [op |-> "async_unload_platforms",
                          entry |-> entry, ok |-> unload_ok],
                         [op |-> "pop", entry |-> entry, ok |-> FALSE] >>
                /\ ret' = Raise("KeyError")
        /\ UNCHANGED coordinator

async_unload_entry ==
    \E entry \in {"entry_1", "entry_2"}, unload_ok \in BOOLEAN :
        /\ Len(history) + 2 <= MaxEvents
        /\ fn' = "async_unload_entry"
        /\ IF ~unload_ok
           THEN /\ arg' = arg
                /\ history' = Append(history,
                       [op |-> "async_unload_platforms", entry |-> entry,
                        ok |-> FALSE])
                /\ ret' = Ok(FALSE)
           \* hass.data[DOMAIN].pop(entry.entry_id)
           ELSE IF /\ "DOMAIN" \in DOMAIN arg.data
                   /\ entry \in DOMAIN arg.data["DOMAIN"]
           THEN /\ arg' = [arg EXCEPT !.data =
                       [d \in {"DOMAIN"} |->
                          [e \in DOMAIN arg.data["DOMAIN"] \ {entry} |->
                             arg.data["DOMAIN"][e]]]]
                /\ history' = history \o
                      << [op |-> "async_unload_platforms",
                          entry |-> entry, ok |-> TRUE],
                         [op |-> "pop", entry |-> entry, ok |-> TRUE] >>
                /\ ret' = Ok(TRUE)
           ELSE /\ arg' = arg
                /\ history' = history \o
                      << [op |-> "async_unload_platforms",
                          entry |-> entry, ok |-> TRUE],
                         [op |-> "pop", entry |-> entry, ok |-> FALSE] >>
                /\ ret' = Raise("KeyError")
        /\ UNCHANGED coordinator

NextSetup == async_setup_entry \/ async_unload_entry

\* any sequence of setups and unloads of two config entries
SpecSetup == InitSetup /\ [][NextSetup]_vars

(***************************************************************************)
(* config_flow.py: validate_input and ConfigFlow.async_step_user.  The     *)
(* user's input is a record of the model and of whether a username and a   *)
(* password were given; the device's behaviour is as in the update cycle,  *)
(* with the exception that reading the body raises, if any: response.json()*)
(* raises ContentTypeError, JSONDecodeError or UnicodeDecodeError,         *)
(* response.text() UnicodeDecodeError, and a request can fail with         *)
(* InvalidURL.  JSONDecodeError, UnicodeDecodeError and InvalidURL are     *)
(* subclasses of ValueError.                                               *)
(***************************************************************************)
\* validate_input(hass, data): the requests it sent and its outcome; the
\* except clause logs and re-raises
validate_input(data, env) ==
    IF data.model = "MB8600"
    THEN Respond(env, env.data_status, <<Request("HNAP1", FALSE)>>,
           [sent |-> <<Request("HNAP1", FALSE)>>,
            outcome |-> IF env.body = "none"
                        THEN Ok(<<"Arris Modem ", data.model>>)
                        ELSE Raise(env.body)])
    ELSE IF ~data.username \/ ~data.password
    THEN [sent |-> <<>>, outcome |-> Raise("ValueError")]
    ELSE IF env.fault.at = "check.jst"
    THEN [sent |-> <<Request("check.jst", FALSE)>>,
          outcome |-> Raise(env.fault.exc)]
    ELSE IF env.status \notin {301, 302} \/ ~env.cookies
    THEN [sent |-> <<Request("check.jst", FALSE)>>,
          outcome |-> Raise("ClientError")]
    ELSE Respond(env, env.data_status,
           <<Request("check.jst", FALSE),
             Request("network_setup.jst", env.cookies)>>,
           [sent |-> <<Request("check.jst", FALSE),
                       Request("network_setup.jst", env.cookies)>>,
            outcome |-> IF env.body = "UnicodeDecodeError"
                        THEN Raise(env.body)
                        ELSE Ok(<<"Arris Modem ", data.model>>)])

\* arg.submitted is false when user_input is None
InitFlow ==
    /\ coordinator = IdleCoordinator
    /\ history = <<>>
    /\ fn = "async_step_user"
    /\ arg \in [submitted : BOOLEAN,
                user_input : [model : {"MB8600", "CGM4331COM", "CGM4981COM"},
                              username : BOOLEAN, password : BOOLEAN],
                env : [status : {200, 301, 302, 401},
                       cookies : BOOLEAN,
                       data_status : {200, 404},
                       body : {"none", "ContentTypeError", "JSONDecodeError",
                               "UnicodeDecodeError"},
                       fault : [at : {"none"}, exc : {"none"}]
                               \cup [at : {"HNAP1", "check.jst",
                                           "network_setup.jst"},
                                     exc : {"TimeoutError",
                                            "ClientConnectorError",
                                            "InvalidURL"}]]]
    /\ ret = Pending

\* variant: `except ValueError` catches the class itself only
async_step_user_exact ==
    /\ fn = "async_step_user"
    /\ ret = Pending
    /\ history' = IF arg.submitted
                  THEN validate_input(arg.user_input, arg.env).sent ELSE <<>>
    /\ ret' =
         IF ~arg.submitted
         THEN Ok([type |-> "form", title |-> <<>>, base |-> "none"])
         ELSE IF Returned(validate_input(arg.user_input, arg.env).outcome)
         THEN Ok([type |-> "create_entry",
                  title |-> validate_input(arg.user_input,
                                           arg.env).outcome.value,
                  base |-> "none"])
         ELSE IF validate_input(arg.user_input, arg.env).outcome.exc
                    = "ValueError"
         THEN Ok([type |-> "form", title |-> <<>>, base |-> "invalid_auth"])
         ELSE Ok([type |-> "form", title |-> <<>>, base |-> "cannot_connect"])
    /\ UNCHANGED <<coordinator, fn, arg>>

\* ConfigFlow.async_step_user(user_input): the flow result's type, the
\* entry's title and errors["base"]
async_step_user ==
    /\ fn = "async_step_user"
    /\ ret = Pending
    /\ history' = IF arg.submitted
                  THEN validate_input(arg.user_input, arg.env).sent ELSE <<>>
    /\ ret' =
         IF ~arg.submitted
         THEN Ok([type |-> "form", title |-> <<>>, base |-> "none"])
         ELSE IF Returned(validate_input(arg.user_input, arg.env).outcome)
         THEN Ok([type |-> "create_entry",
                  title |-> validate_input(arg.user_input,
                                           arg.env).outcome.value,
                  base |-> "none"])
         \* except ValueError, subclasses included
         ELSE IF validate_input(arg.user_input, arg.env).outcome.exc
                    \in {"ValueError", "JSONDecodeError",
                         "UnicodeDecodeError", "InvalidURL"}
         THEN Ok([type |-> "form", title |-> <<>>, base |-> "invalid_auth"])
         ELSE Ok([type |-> "form", title |-> <<>>, base |-> "cannot_connect"])
    /\ UNCHANGED <<coordinator, fn, arg>>

NextFlow == async_step_user

\* one call of the user step on any input against any device behaviour
SpecFlow == InitFlow /\ [][NextFlow]_vars

(***************************************************************************)
(* Properties.                                                             *)
(***************************************************************************)
Called(f) == fn = f /\ ret.exc # "pending"

IsParser == fn \in {"_parse_mb8600_json", "_parse_cgm4331com_html"}

DsBlob(data) ==
    data["GetMultipleHNAPsResponse"]["GetMotoStatusDownstreamChannelInfoResponse"]["MotoConnDownstreamChannel"]

UsBlob(data) ==
    data["GetMultipleHNAPsResponse"]["GetMotoStatusUpstreamChannelInfoResponse"]["MotoConnUpstreamChannel"]

HasPath(data, k2, k3) ==
    /\ "GetMultipleHNAPsResponse" \in DOMAIN data
    /\ k2 \in DOMAIN data["GetMultipleHNAPsResponse"]
    /\ k3 \in DOMAIN data["GetMultipleHNAPsResponse"][k2]

\* the non-empty pieces of a blob, each split into its fields
RecordFields(blob) ==
    LET pieces == SplitOn(blob, RecordSep)
    IN  [i \in {j \in 1..Len(pieces) : pieces[j] # <<>>} |->
            SplitOn(pieces[i], FieldSep)]

\* C1: the HTML parser returns a model for every document and never raises.
HtmlNeverRaises ==
    Called("_parse_cgm4331com_html") => Returned(ret)

JsonWellFormed(data) ==
    /\ HasPath(data, "GetMotoStatusDownstreamChannelInfoResponse",
               "MotoConnDownstreamChannel")
    /\ HasPath(data, "GetMotoStatusUpstreamChannelInfoResponse",
               "MotoConnUpstreamChannel")
    /\ HasPath(data, "GetMotoStatusConnectionInfoResponse", "MotoConnSystemUpTime")
    /\ LET ds == RecordFields(DsBlob(data))
           us == RecordFields(UsBlob(data))
       IN  /\ \A i \in DOMAIN ds :
                 /\ Len(ds[i]) >= 9
                 /\ \A q \in {1, 4, 8, 9} : IntOk(ds[i][q])
                 /\ \A q \in {5, 6, 7} : FloatOk(ds[i][q])
           /\ \A i \in DOMAIN us :
                 /\ Len(us[i]) >= 7
                 /\ \A q \in {1, 4, 5} : IntOk(us[i][q])
                 /\ \A q \in {6, 7} : FloatOk(us[i][q])

\* C2: the JSON parser returns a model exactly when the three key paths are
\* present, every non-empty record has enough fields and every numeric field
\* parses; otherwise it fails.
JsonReturnsIffWellFormed ==
    Called("_parse_mb8600_json") => (Returned(ret) <=> JsonWellFormed(arg))

\* C3: parse_uptime never fails: it returns an integer for every text.
UptimeNeverFails ==
    Called("parse_uptime") => Returned(ret)

\* C4: a document with fewer than 3 row groups yields a model with empty
\* downstream and upstream maps and no exception.
FewTablesEmptyModel ==
    (Called("_parse_cgm4331com_html") /\ Len(arg.tables) < 3) =>
        /\ Returned(ret)
        /\ DOMAIN ret.value.downstream = {}
        /\ DOMAIN ret.value.upstream = {}

ExampleBlob ==
    <<"1", "^", "l", "o", "c", "k", "e", "d", "^", "Q", "A", "M", "2",
      "5", "6", "^", "5", "^", "5", "4", "9", ".", "0", "^", "5", ".",
      "1", "^", "4", "0", ".", "2", "^", "0", "^", "0", "|", "+", "|",
      "2", "^", "l", "o", "c", "k", "e", "d", "^", "Q", "A", "M", "2",
      "5", "6", "^", "6", "^", "5", "5", "5", ".", "0", "^", "5", ".",
      "3", "^", "4", "0", ".", "0", "^", "1", "^", "2">>

ExpectedDownstream(f) ==
    [channel |-> IntVal(f[1]), lock_status |-> f[2], modulation |-> f[3],
     channel_id |-> IntVal(f[4]), frequency |-> FloatVal(f[5]),
     power |-> FloatVal(f[6]), snr |-> FloatVal(f[7]),
     corrected_errors |-> IntVal(f[8]), uncorrected_errors |-> IntVal(f[9])]

ExpectedUpstream(f) ==
    [channel |-> IntVal(f[1]), lock_status |-> f[2], modulation |-> f[3],
     channel_id |-> IntVal(f[4]), symbol_rate |-> IntVal(f[5]),
     frequency |-> FloatVal(f[6]), power |-> FloatVal(f[7])]

\* the keys of m are the leading numbers of the records, and under each key
\* is the positional reading of the last record that carries it
PositionalMap(m, recs, dir) ==
    /\ DOMAIN m = { IntVal(recs[i][1]) : i \in DOMAIN recs }
    /\ \A i \in DOMAIN recs :
          (\A j \in DOMAIN recs : j > i => IntVal(recs[j][1]) # IntVal(recs[i][1]))
          => m[IntVal(recs[i][1])] =
                 IF dir = "downstream" THEN ExpectedDownstream(recs[i])
                 ELSE ExpectedUpstream(recs[i])

\* C5: in a returned model each non-empty "|+|"-separated record is one map
\* entry keyed by its leading channel number with the other fields assigned by
\* position, a later record overwriting an earlier one of the same number; the
\* example blob gives keys 1 and 2, channel_id 5 and 6, uncorrected_errors 0, 2.
JsonRecordsByPosition ==
    (Called("_parse_mb8600_json") /\ Returned(ret)) =>
        /\ PositionalMap(ret.value.downstream, RecordFields(DsBlob(arg)), "downstream")
        /\ PositionalMap(ret.value.upstream, RecordFields(UsBlob(arg)), "upstream")
        /\ DsBlob(arg) = ExampleBlob =>
              /\ DOMAIN ret.value.downstream = {1, 2}
              /\ ret.value.downstream[1].channel_id = 5
              /\ ret.value.downstream[2].channel_id = 6
              /\ ret.value.downstream[1].uncorrected_errors = 0
              /\ ret.value.downstream[2].uncorrected_errors = 2

JsonExampleParsed ==
    /\ Called("_parse_mb8600_json") /\ Returned(ret)
    /\ DsBlob(arg) = ExampleBlob
    /\ DOMAIN ret.value.downstream = {1, 2}
    /\ ret.value.downstream[2].uncorrected_errors = 2

\* C6: in every returned model every record's channel field equals the key
\* it is stored under, in the downstream and in the upstream map.
ChannelEqualsKey ==
    (IsParser /\ Returned(ret)) =>
        /\ \A k \in DOMAIN ret.value.downstream : ret.value.downstream[k].channel = k
        /\ \A k \in DOMAIN ret.value.upstream : ret.value.upstream[k].channel = k

HtmlChannelsKeyed ==
    /\ Called("_parse_cgm4331com_html") /\ Returned(ret)
    /\ DOMAIN ret.value.downstream = {1, 2}
    /\ ret.value.downstream[1].channel_id = 5
    /\ DOMAIN ret.value.upstream = {1, 2}

SameCallSameOutcome ==
    \A i, j \in DOMAIN history :
        (history[i].fn = history[j].fn /\ history[i].input = history[j].input)
        => history[i].outcome = history[j].outcome

ParseFrame ==
    Len(history') > Len(history) =>
        /\ coordinator' = coordinator
        /\ SubSeq(history', 1, Len(history)) = history

NumericRanges ==
    (IsParser /\ Returned(ret)) =>
        /\ \A k \in DOMAIN ret.value.downstream :
              /\ k >= 1
              /\ ret.value.downstream[k].corrected_errors >= 0
              /\ ret.value.downstream[k].uncorrected_errors >= 0
        /\ \A k \in DOMAIN ret.value.upstream : k >= 1
        /\ "system_uptime" \in DOMAIN ret.value => ret.value.system_uptime >= 0

\* C9: for a document without the "System Uptime:" label the HTML parser
\* returns a model, and that model carries a system uptime of 0.
NoLabelUptimeZero ==
    (Called("_parse_cgm4331com_html") /\ ~arg.uptime.label) =>
        /\ Returned(ret)
        /\ "system_uptime" \in DOMAIN ret.value
        /\ ret.value.system_uptime = 0

\* text[1..a] is <N>, followed by " days <H>h:<M>m:<S>s" with <H> ending at
\* b, <M> at c and <S> at d
StrictLayout(text, a, b, c, d) ==
    /\ IsDigits(SubSeq(text, 1, a)) /\ StartsAt(text, a + 1, LitDays)
    /\ IsDigits(SubSeq(text, a + 7, b)) /\ StartsAt(text, b + 1, LitH)
    /\ IsDigits(SubSeq(text, b + 3, c)) /\ StartsAt(text, c + 1, LitM)
    /\ IsDigits(SubSeq(text, c + 3, d)) /\ StartsAt(text, d + 1, LitS)

\* every text that starts with the strict layout gives N, H, M, S weighted
\* by 86400, 3600, 60 and 1
StrictLayoutWeighted ==
    Called("parse_uptime") =>
        \A a \in 1..Len(arg) :
            (IsDigits(SubSeq(arg, 1, a)) /\ StartsAt(arg, a + 1, LitDays)) =>
                \A b, c, d \in (a + 7)..Len(arg) :
                    StrictLayout(arg, a, b, c, d) =>
                        /\ Returned(ret)
                        /\ ret.value = NatOf(SubSeq(arg, 1, a)) * 86400
                                       + NatOf(SubSeq(arg, a + 7, b)) * 3600
                                       + NatOf(SubSeq(arg, b + 3, c)) * 60
                                       + NatOf(SubSeq(arg, c + 3, d))

\* "1 days 02h:03m:04s"
StrictExampleText ==
    <<"1", " ", "d", "a", "y", "s", " ", "0", "2",
      "h", ":", "0", "3", "m", ":", "0", "4", "s">>

\* C10 as stated: for a text that starts with "<N> days <H>h:<M>m:<S>s"
\* parse_uptime returns N*86400 + H*3600 + M*60 + S, and "1 days 02h:03m:04s"
\* gives 97384.
StrictUptimeAsStated ==
    /\ StrictLayoutWeighted
    /\ (Called("parse_uptime") /\ arg = StrictExampleText) =>
           (Returned(ret) /\ ret.value = 97384)

\* C10 as amended: for a text that starts with "<N> days <H>h:<M>m:<S>s"
\* parse_uptime returns N*86400 + H*3600 + M*60 + S, and "1 days 02h:03m:04s"
\* gives 93784.
StrictUptimeSeconds ==
    /\ StrictLayoutWeighted
    /\ (Called("parse_uptime") /\ arg = StrictExampleText) =>
           (Returned(ret) /\ ret.value = 93784)

StrictExample ==
    /\ Called("parse_uptime")
    /\ arg = StrictExampleText
    /\ Returned(ret) /\ ret.value = 93784

(***************************************************************************)
(* The loose form of an uptime text, as a reading of its tokens.           *)
(***************************************************************************)
\* the greatest index of a non-empty set of indices
LastIndex(idx) == CHOOSE i \in idx : \A j \in idx : j <= i

\* the number of the last token of the form <number>c, 0 when there is none
SuppliedBy(tokens, c) ==
    LET idx == { i \in 1..Len(tokens) :
                   /\ tokens[i] # TokDays /\ EndsWith(tokens[i], c)
                   /\ IsDigits(DropLast(tokens[i])) }
    IN  IF idx = {} THEN 0 ELSE NatOf(DropLast(tokens[LastIndex(idx)]))

\* the number before the last "days" token that has a number before it, 0
\* when there is none
SuppliedDays(tokens) ==
    LET idx == { i \in 2..Len(tokens) :
                   tokens[i] = TokDays /\ IsDigits(tokens[i - 1]) }
    IN  IF idx = {} THEN 0 ELSE NatOf(tokens[LastIndex(idx) - 1])

SuppliedSeconds(tokens) ==
    SuppliedDays(tokens) * 86400 + SuppliedBy(tokens, "h") * 3600
    + SuppliedBy(tokens, "m") * 60 + SuppliedBy(tokens, "s")

\* C11: for a text that does not match the strict layout parse_uptime
\* returns days*86400 + hours*3600 + minutes*60 + seconds, the day count being
\* the token before a "days" token and hours, minutes, seconds the numbers of
\* the <number>h, <number>m, <number>s tokens, each 0 when not supplied;
\* "3 days 4h 5m 6s" gives 273906 and "nonsense" gives 0.
LooseUptimeSeconds ==
    (Called("parse_uptime") /\ ~StrictMatch(arg).found) =>
        /\ Returned(ret)
        /\ ret.value = SuppliedSeconds(SplitWs(arg))
        /\ arg = LooseExampleText => ret.value = 273906
        /\ arg = <<"n", "o", "n", "s", "e", "n", "s", "e">> => ret.value = 0

\* the direction map of the data exists, contains the channel number, and the
\* record under it contains the key
Stored(direction, a) ==
    /\ a.data.type = "dict" /\ HasKey(a.data, direction)
    /\ Item(a.data, direction).type = "dict"
    /\ HasKey(Item(a.data, direction), a.channel)
    /\ Item(Item(a.data, direction), a.channel).type = "dict"
    /\ HasKey(Item(Item(a.data, direction), a.channel), a.key)

\* the outcome of a query as stated: the stored value, else None
StoredOrNone(direction) ==
    /\ Returned(ret)
    /\ ret.value = IF Stored(direction, arg)
                   THEN Item(Item(Item(arg.data, direction), arg.channel),
                             arg.key)
                   ELSE None

CycleSends(url) ==
    IF coordinator.model = "MB8600" THEN url = "HNAP1"
    ELSE url \in {"check.jst", "network_setup.jst"}

\* something failed in the cycle: a timeout or connection error, an HTTP
\* error status, a body that is no JSON, missing credentials, a failed login,
\* a missing session cookie, or a parser that raised
CycleFailed ==
    \/ CycleSends(arg.fault.at)
    \/ arg.data_status >= 400
    \/ IF coordinator.model = "MB8600"
       THEN ~arg.json_ok \/ ~Returned(_parse_mb8600_json(arg.json))
       ELSE \/ ~coordinator.username \/ ~coordinator.password
            \/ arg.status \notin {301, 302} \/ ~arg.cookies
            \/ ~Returned(_parse_cgm4331com_html(arg.html))

DownstreamIds ==
    [k \in DOMAIN ret.value.downstream |-> ret.value.downstream[k].channel_id]

\* C14: a single digit run longer than 3 digits in the Channel ID header text
\* is split into 2-digit channel ids: for the downstream table whose only row
\* is "Channel ID\n123456" the ids are 12, 34, 56.
GiantRunSplitInPairs ==
    (/\ Called("_parse_cgm4331com_html") /\ Returned(ret)
     /\ Len(arg.tables) >= 3 /\ arg.tables[1] = <<Rows.DsIdsBlob>>) =>
        DownstreamIds = <<12, 34, 56>>

\* row k of the error table takes its values from the header text
ErrorFallbackRow(rows, k) ==
    /\ rows[k].th /\ TdValues(rows[k]) = <<>>
    /\ HasNewline(Strip(rows[k].th_text))

\* the rows gathered from the error table before its row k
GatheredBefore(rows, k) == GatherErrorRows(SubSeq(rows, 1, k - 1), 1, <<>>)

\* the first n pieces of blob, each of size consecutive digits
LeadingChunks(blob, n, size) ==
    [j \in 1..n |-> SubSeq(blob, (j - 1) * size + 1, j * size)]

\* the values of a codeword row as stated: n chunks of floor(L/n) digits
\* when n >= 1 channel ids were gathered before it and L >= n, the digit runs
\* when no Channel ID row was gathered
StatedCodewordValues(value_text, error_data, values) ==
    IF ~DataHas(error_data, H_ChannelID)
    THEN values = FindDigitRuns(value_text)
    ELSE LET n == Len(DataGet(error_data, H_ChannelID))
             L == Len(DigitsOnly(value_text))
         IN  (n >= 1 /\ L >= n) =>
                 values = LeadingChunks(DigitsOnly(value_text), n, L \div n)

\* C15: a codeword row read from the header text yields exactly n chunks of
\* floor(L/n) digits, the remaining L mod n digits dropped, when a Channel ID
\* row with n >= 1 ids was gathered before it and the blob has L >= n digits;
\* it yields the digit runs of the blob when no Channel ID row was gathered.
CodewordChunksAsStated ==
    (Called("_parse_cgm4331com_html") /\ Len(arg.tables) >= 3) =>
        \A k \in 1..Len(arg.tables[3]) :
            (/\ ErrorFallbackRow(arg.tables[3], k)
             /\ RowHeader(arg.tables[3][k]) \in {H_Correctable, H_Uncorrectable}
             /\ Returned(GatheredBefore(arg.tables[3], k))
             /\ Returned(ErrorRowValues(arg.tables[3][k],
                                        GatheredBefore(arg.tables[3], k).value)))
            => StatedCodewordValues(
                   Strip(AfterFirstNewline(Strip(arg.tables[3][k].th_text))),
                   GatheredBefore(arg.tables[3], k).value,
                   ErrorRowValues(arg.tables[3][k],
                                  GatheredBefore(arg.tables[3], k).value).value)

\* a returned channel map as stated for the rows of its table: the keys
\* 1..count, count the largest number of values of a row; each record at its
\* position, its channel_id from the Channel ID row where that row has one
PositionsAsStated(map, data) ==
    /\ DOMAIN map = 1..MaxLen(data, 1)
    /\ \A k \in DOMAIN map :
          /\ map[k].channel = k
          /\ (/\ DataHas(data, H_ChannelID)
              /\ k <= Len(DataGet(data, H_ChannelID))
              /\ IntOk(DataGet(data, H_ChannelID)[k]))
             => map[k].channel_id = IntVal(DataGet(data, H_ChannelID)[k])

\* C16: for a document with at least 3 tables the returned downstream and
\* upstream maps have exactly the keys 1..count, one record per position,
\* whether or not the table has a Channel ID row.
KeysOneToCount ==
    (/\ Called("_parse_cgm4331com_html") /\ Returned(ret)
     /\ Len(arg.tables) >= 3) =>
        /\ PositionsAsStated(ret.value.downstream,
                             GatherRows(arg.tables[1], 1, <<>>))
        /\ PositionsAsStated(ret.value.upstream,
                             GatherRows(arg.tables[2], 1, <<>>))

\* the gathered rows of the error table, empty where the table is not read
ErrorData ==
    IF Len(arg.tables) >= 3
    THEN GatherErrorRows(arg.tables[3], 1, <<>>).value ELSE <<>>

\* the downstream map before the error table is read
DownstreamBefore == ChannelTable("downstream", arg.tables[1]).value

\* the value written to an error field from the row under header h at
\* position k, the field keeping old when there is none that converts
ErrorFieldAsStated(h, k, old) ==
    IF /\ DataHas(ErrorData, H_ChannelID)
       /\ DataHas(ErrorData, H_Correctable)
       /\ DataHas(ErrorData, H_Uncorrectable)
       /\ k <= Len(DataGet(ErrorData, H_ChannelID))
       /\ k <= Len(DataGet(ErrorData, h))
       /\ IntOk(DataGet(ErrorData, h)[k])
    THEN IntVal(DataGet(ErrorData, h)[k])
    ELSE old

GatheredValues(t, k) ==
    IF t = 3
    THEN ErrorRowValues(arg.tables[3][k], GatheredBefore(arg.tables[3], k).value)
    ELSE Ok(RowValues(arg.tables[t][k]))

\* the header rows of the three tables whose values are gathered
GatheredRows ==
    { tk \in (1..3) \X (1..MaxRows) :
        /\ tk[2] <= Len(arg.tables[tk[1]])
        /\ arg.tables[tk[1]][tk[2]].th
        /\ tk[1] = 3 => Returned(GatheredBefore(arg.tables[3], tk[2]))
        /\ Returned(GatheredValues(tk[1], tk[2])) }

\* the digit runs of the header text after its first line
BlobRuns(row) ==
    FindDigitRuns(Strip(AfterFirstNewline(Strip(row.th_text))))

\* values taken from the header text only without td values and with a
\* newline in the header text; td values taken as they are
FallbackOnlyWithoutValues(row, values) ==
    /\ TdValues(row) # <<>> => values = TdValues(row)
    /\ values # TdValues(row) => HasNewline(Strip(row.th_text))

\* within the fallback the runs are split only if there is exactly one and
\* it is longer than 3 digits
RunsUnchanged(row, values) ==
    (/\ values # TdValues(row)
     /\ ~(Len(BlobRuns(row)) = 1 /\ Len(BlobRuns(row)[1]) > 3))
    => values = BlobRuns(row)

\* C18 as stated: the fallback is used for a row only without td values and
\* with a newline in the header text, and within the fallback of any row
\* the digit runs are the values unless there is exactly one run and it is
\* longer than 3 digits.
FallbackAsStated ==
    (Called("_parse_cgm4331com_html") /\ Len(arg.tables) >= 3) =>
        \A tk \in GatheredRows :
            /\ FallbackOnlyWithoutValues(arg.tables[tk[1]][tk[2]],
                                         GatheredValues(tk[1], tk[2]).value)
            /\ RunsUnchanged(arg.tables[tk[1]][tk[2]],
                             GatheredValues(tk[1], tk[2]).value)

\* C18: the fallback is used for a row only without td values and with a
\* newline in the header text; within the fallback of a Channel ID row the
\* digit runs are the values unless there is exactly one run and it is longer
\* than 3 digits (the codeword rows of the error table are cut into chunks
\* instead).
FallbackOfChannelIdRows ==
    (Called("_parse_cgm4331com_html") /\ Len(arg.tables) >= 3) =>
        \A tk \in GatheredRows :
            /\ FallbackOnlyWithoutValues(arg.tables[tk[1]][tk[2]],
                                         GatheredValues(tk[1], tk[2]).value)
            /\ RowHeader(arg.tables[tk[1]][tk[2]]) = H_ChannelID =>
                 RunsUnchanged(arg.tables[tk[1]][tk[2]],
                               GatheredValues(tk[1], tk[2]).value)

\* an upstream Channel ID row without td values whose header text holds the
\* runs "1234" and "5" gave the channel ids 1234 and 5
SeveralRunsKept ==
    /\ Called("_parse_cgm4331com_html") /\ Returned(ret)
    /\ Len(arg.tables) >= 3 /\ arg.tables[2] = <<Rows.UsIdsRuns>>
    /\ DOMAIN ret.value.upstream = 1..2
    /\ ret.value.upstream[1].channel_id = 1234
    /\ ret.value.upstream[2].channel_id = 5

\* the leading number is n and the unit token u: the frequency as stated
StatedFrequency(f, n, u) ==
    IF u # U_MHz /\ n.num > 1000000 * n.den
    THEN f = Reduce10(n.num, n.den * 1000000)
    ELSE f = n

\* the frequency field f is as stated for the row value
FrequencyAsStated(f, value) ==
    IF NumberLen(value, 1) = 0 THEN f = FloatOfInt(0)
    ELSE StatedFrequency(f,
             FloatVal(SubSeq(value, 1, NumberLen(value, 1))),
             UnitAt(value, NumberLen(value, 1) + 1
                           + RunOf(value, NumberLen(value, 1) + 1, Whitespace)))

\* every record of the map has the frequency stated for its position's value
\* of the "Frequency" row
FrequenciesAsStated(map, data) ==
    DataHas(data, H_Frequency) =>
        \A k \in DOMAIN map :
            k <= Len(DataGet(data, H_Frequency)) =>
                FrequencyAsStated(map[k].frequency,
                                  DataGet(data, H_Frequency)[k])

\* C19: the stored frequency of a "Frequency" row value with leading number n
\* and unit u is n / 1,000,000 when u is not "MHz" and n > 1,000,000, n
\* otherwise, and the default 0 for a value without a leading number.
FrequencyNormalised ==
    (/\ Called("_parse_cgm4331com_html") /\ Returned(ret)
     /\ Len(arg.tables) >= 3) =>
        /\ FrequenciesAsStated(ret.value.downstream,
                               GatherRows(arg.tables[1], 1, <<>>))
        /\ FrequenciesAsStated(ret.value.upstream,
                               GatherRows(arg.tables[2], 1, <<>>))

\* "549000000 Hz" was stored as 549, "1000000" and "2000000MHz" undivided,
\* "1000001" divided and "MHz" left the default
FrequenciesStored ==
    /\ Called("_parse_cgm4331com_html") /\ Returned(ret)
    /\ Len(arg.tables) >= 3
    /\ arg.tables[2] = <<Rows.UsIdsDivs, Rows.UsFrequency>>
    /\ ret.value.downstream[1].frequency = FloatOfInt(549)
    /\ ret.value.upstream[2].frequency = FloatOfInt(1000000)
    /\ ret.value.upstream[3].frequency = [num |-> 1000001, den |-> 1000000]
    /\ ret.value.upstream[4].frequency = FloatOfInt(2000000)
    /\ ret.value.upstream[5].frequency = FloatOfInt(0)

\* the length of the sign of a row value, 1 for a leading "+" or "-"
SignLenOf(value) ==
    IF value # <<>> /\ value[1] \in {"+", "-"} THEN 1 ELSE 0

\* a value that begins with a signed or unsigned decimal token sets the field
\* f to that number with its sign
SignedAsStated(f, value) ==
    NumberLen(value, 1 + SignLenOf(value)) > 0 =>
        f = FloatVal(SubSeq(value, 1,
                SignLenOf(value) + NumberLen(value, 1 + SignLenOf(value))))

\* the fields named field of the map are as stated for the row under header h
RowSignedAsStated(map, data, h, field) ==
    DataHas(data, h) =>
        \A k \in DOMAIN map :
            k <= Len(DataGet(data, h)) =>
                SignedAsStated(map[k][field], DataGet(data, h)[k])

\* C20: in the "SNR" row and in the "Power Level" row a value that begins
\* with a signed or unsigned decimal token sets snr / power to that number
\* with its sign, the unit ignored; a leading "+" or "-" is read for SNR as it
\* is for Power Level.
SignedSnrAndPower ==
    (/\ Called("_parse_cgm4331com_html") /\ Returned(ret)
     /\ Len(arg.tables) >= 3) =>
        /\ RowSignedAsStated(ret.value.downstream,
               GatherRows(arg.tables[1], 1, <<>>), H_SNR, "snr")
        /\ RowSignedAsStated(ret.value.downstream,
               GatherRows(arg.tables[1], 1, <<>>), H_PowerLevel, "power")
        /\ RowSignedAsStated(ret.value.upstream,
               GatherRows(arg.tables[2], 1, <<>>), H_PowerLevel, "power")

RECURSIVE Concatenated(_)
\* the pieces joined in order
Concatenated(pieces) ==
    IF pieces = <<>> THEN <<>>
    ELSE Head(pieces) \o Concatenated(Tail(pieces))

\* C21: for every digit run longer than 3 digits the splitting loop ends and
\* its pieces are a partition of the run: joined in order they are the run,
\* and every piece is 1 or 2 digits long.
SplitIsPartition ==
    Called("split") =>
        /\ Returned(ret)
        /\ Concatenated(ret.value) = arg
        /\ \A k \in 1..Len(ret.value) : Len(ret.value[k]) \in {1, 2}

\* a run was split into a 2-digit piece followed by 1-digit pieces
SplitMixedPieces ==
    /\ Called("split")
    /\ arg = <<"0", "1", "9", "1", "0">>
    /\ Len(ret.value[1]) = 2
    /\ \E k \in 2..Len(ret.value) : Len(ret.value[k]) = 1

\* the urls of the requests sent in the cycle, in order, parser calls left out
RequestsSent ==
    [k \in 1..Len(SelectSeq(history, LAMBDA e : e.url \in {"HNAP1", "check.jst", "network_setup.jst"})) |->
        SelectSeq(history, LAMBDA e : e.url \in {"HNAP1", "check.jst", "network_setup.jst"})[k].url]

\* the login response was a redirect that set cookies
LoginSucceeded ==
    /\ arg.fault.at # "check.jst"
    /\ arg.status \in {301, 302}
    /\ arg.cookies

\* C22: in a cycle for a model other than "MB8600" no request is sent when
\* the username or the password is missing; the data request follows a login
\* request answered with 301 or 302 and cookies, and carries the cookies; the
\* HTML parser is called only after a successful data response.  For
\* "MB8600" the HNAP1 POST is the only request.
RequestsOrdered ==
    Called("_async_update_data") =>
        IF coordinator.model = "MB8600"
        THEN RequestsSent = <<"HNAP1">>
        ELSE /\ (~coordinator.username \/ ~coordinator.password)
                  => history = <<>>
             /\ \A k \in 1..Len(history) :
                  /\ history[k].url = "network_setup.jst" =>
                       /\ k = 2 /\ history[1].url = "check.jst"
                       /\ LoginSucceeded
                       /\ history[k].cookies = arg.cookies
                  /\ history[k].url = "_parse_cgm4331com_html" =>
                       /\ k = 3 /\ history[2].url = "network_setup.jst"
                       /\ arg.fault.at # "network_setup.jst"
                       /\ arg.data_status < 400
                  /\ history[k].url \notin {"HNAP1", "_parse_mb8600_json"}
             /\ RequestsSent \in {<<>>, <<"check.jst">>,
                                  <<"check.jst", "network_setup.jst">>}

\* a cycle logged in, fetched the data with the cookies and parsed the body
LoginThenDataThenParse ==
    /\ Called("_async_update_data")
    /\ coordinator.model = "CGM4981COM"
    /\ Len(history) = 3
    /\ history[2] = [url |-> "network_setup.jst", cookies |-> TRUE]
    /\ history[3].url = "_parse_cgm4331com_html"
    /\ Returned(ret)

\* C23: reading the error table adds no channel key to the downstream map and
\* removes none, leaves the upstream map as the upstream table gave it, and
\* changes no downstream field but corrected_errors and uncorrected_errors.
ErrorTableFrame ==
    (/\ Called("_parse_cgm4331com_html") /\ Returned(ret)
     /\ Len(arg.tables) >= 3) =>
        /\ DOMAIN ret.value.downstream = DOMAIN DownstreamBefore
        /\ ret.value.upstream = ChannelTable("upstream", arg.tables[2]).value
        /\ \A k \in DOMAIN ret.value.downstream :
             [ret.value.downstream[k] EXCEPT
                 !.corrected_errors = DownstreamBefore[k].corrected_errors,
                 !.uncorrected_errors = DownstreamBefore[k].uncorrected_errors]
             = DownstreamBefore[k]

\* an error table with values for two channels was read against a downstream
\* table that gave no record: the values were discarded
ErrorValuesDiscarded ==
    /\ Called("_parse_cgm4331com_html") /\ Returned(ret)
    /\ Len(arg.tables) >= 3
    /\ arg.tables[1] = <<Rows.DsLock>>
    /\ arg.tables[3] = GoodErrTable
    /\ DOMAIN ret.value.downstream = {}

\* the data is None or a dict whose values are dicts, as the parsers build it
DataOfParser ==
    \/ arg.data = None
    \/ /\ arg.data.type = "dict"
       /\ \A n \in 1..Len(arg.data.d) : arg.data.d[n][2].type = "dict"

\* the key of the entity's direction in the data
DirectionKey ==
    StrObj(IF arg.self._direction = "Downstream" THEN Key.downstream
           ELSE Key.upstream)

\* the data is not None, holds the map of the entity's direction, and the
\* map holds the entity's channel number
ChannelPresent ==
    /\ arg.data # None
    /\ HasKey(arg.data, DirectionKey)
    /\ HasKey(Item(arg.data, DirectionKey), arg.self._channel)

\* C24: for every entity async_setup_entry creates and every data value,
\* available is true exactly when the data is not None, holds the map of the
\* entity's direction and that map holds the entity's channel number; and
\* when native_value is not None, available is true.
AvailableIffChannelPresent ==
    fn = "ArrisModemSensor" =>
        /\ (ret.available.exc # "pending" /\ DataOfParser) =>
              /\ ret.available.exc = "none"
              /\ ret.available.value = ChannelPresent
        /\ (/\ ret.available.exc # "pending"
            /\ ret.native_value.exc # "pending"
            /\ ret.native_value # Ok(None)) =>
              /\ ret.available.exc = "none"
              /\ ret.available.value

\* an entity reported a value and was available; the same data held no map
\* of the other direction
ValueWhileAvailable ==
    /\ fn = "ArrisModemSensor"
    /\ ret.available.exc = "none" /\ ret.available.value
    /\ ret.native_value.exc = "none" /\ ret.native_value.value = IntObj(40)
    /\ arg.self._direction = "Downstream"
    /\ ~HasKey(arg.data, StrObj(Key.upstream))

\* the entry ids under hass.data[DOMAIN]
StoredEntries ==
    IF "DOMAIN" \in DOMAIN arg.data THEN DOMAIN arg.data["DOMAIN"] ELSE {}

\* after the first n events the entry's coordinator was stored and not
\* popped since
StoredAfter(n, entry) ==
    \E k \in 1..n :
        /\ history[k].op = "setdefault" /\ history[k].entry = entry
        /\ \A j \in (k + 1)..n :
             ~(history[j].op = "pop" /\ history[j].entry = entry
               /\ history[j].ok)

\* event k is the operation op on the entry of event k + 1, with outcome ok
Precedes(k, op, ok) ==
    /\ k >= 1
    /\ history[k] = [op |-> op, entry |-> history[k + 1].entry, ok |-> ok]

\* C25: over any sequence of setups and unloads, a coordinator is stored
\* only right after its first refresh returned and before the sensor platform
\* is set up; an unload pops the stored coordinator exactly when the platform
\* unload reported success, and a failed unload leaves it in place.
StoredBetweenRefreshAndUnload ==
    /\ StoredEntries = { e \in {"entry_1", "entry_2"} :
                           StoredAfter(Len(history), e) }
    /\ \A k \in 1..Len(history) :
         /\ history[k].op = "setdefault" =>
              Precedes(k - 1, "async_config_entry_first_refresh", TRUE)
         /\ history[k].op = "async_forward_entry_setups" =>
              Precedes(k - 1, "setdefault", TRUE)
         /\ history[k].op = "pop" =>
              /\ Precedes(k - 1, "async_unload_platforms", TRUE)
              /\ history[k].ok = StoredAfter(k - 1, history[k].entry)
         /\ (history[k].op = "async_unload_platforms" /\ history[k].ok) =>
              /\ k < Len(history)
              /\ history[k + 1].op = "pop"
              /\ history[k + 1].entry = history[k].entry

\* an entry was set up, a failed unload left its coordinator stored, and a
\* successful unload then removed it
FailedUnloadThenRemoved ==
    /\ fn = "async_unload_entry"
    /\ Len(history) = 6
    /\ history[2] = [op |-> "setdefault", entry |-> "entry_1", ok |-> TRUE]
    /\ history[3].ok
    /\ history[4] = [op |-> "async_unload_platforms", entry |-> "entry_1",
                     ok |-> FALSE]
    /\ history[6] = [op |-> "pop", entry |-> "entry_1", ok |-> TRUE]
    /\ StoredEntries = {}

\* what validate_input did with the submitted input
Validation == validate_input(arg.user_input, arg.env).outcome

\* the exception is a ValueError: the class or one of its subclasses
IsValueError(exc) ==
    exc \in {"ValueError", "JSONDecodeError", "UnicodeDecodeError",
             "InvalidURL"}

====
